---- MODULE Spec2Model ----
(***************************************************************************)
(* Model of the reconciliation engine of zulkhair/reconciliation           *)
(* (pkg/reconcile/reconcile.go): the matching predicate isMatch and the    *)
(* first-fit loop of Reconcile.                                            *)
(*                                                                         *)
(* Amounts are float64 in the code.  Here an amount is an integer number   *)
(* of 1/10000 of a currency unit (1.00 is 10000, 0.01 is 100, 0.001 is     *)
(* 10), so that the arithmetic of the inputs used below is the exact       *)
(* decimal arithmetic; binary floating-point noise is not modelled.        *)
(*                                                                         *)
(* A time.Time is the number of minutes since the start of day 0 (UTC).    *)
(* Format("2006-01-02") keeps the calendar day of that instant.            *)
(***************************************************************************)
EXTENDS Integers, Sequences, FiniteSets

(***************************************************************************)
(* Bounds of the model.                                                    *)
(***************************************************************************)
MaxSystem == 2

MaxBank == 2

(***************************************************************************)
(* Program constants.                                                      *)
(***************************************************************************)
\* const amountTolerance = 0.01
amountTolerance == 100

\* minutes in one calendar day: the part of a time.Time that the layout
\* "2006-01-02" drops
MinutesPerDay == 1440

TransactionTypeDebit == "DEBIT"

TransactionTypeCredit == "CREDIT"

(***************************************************************************)
(* Input domains.                                                          *)
(***************************************************************************)
Day1 == 1 * MinutesPerDay

Day2 == 2 * MinutesPerDay

\* system transactions handed to Reconcile: 1.00 at 10:30 of day 1, and one
\* transaction at 00:00 of day 2
SystemUniverse ==
    [TrxID : {"T1", "T2"},
     Amount : {10000},
     Type : {TransactionTypeDebit, TransactionTypeCredit},
     TransactionTime : {Day1 + 630}]
    \cup {[TrxID |-> "T2", Amount |-> 10000, Type |-> TransactionTypeCredit,
           TransactionTime |-> Day2]}

\* (BankName, UniqueID) of the bank statements handed to Reconcile: two
\* statements of bank A and one of bank B that carries an id bank A also uses;
\* their amounts are -1.00, 1.00 and 1.014, which is 0.01 off after rounding
BankKeys == {<<"A", "B1">>, <<"A", "B2">>, <<"B", "B1">>}

BankUniverse ==
    {[BankName |-> k[1], UniqueID |-> k[2], Amount |-> a, Date |-> Day1] :
        k \in BankKeys, a \in {10000, 10140, -10000}}

\* arguments of a single isMatch call; no two amounts lie exactly half a
\* cent apart, where the float64 result depends on the representation error
MatchSystemUniverse ==
    [TrxID : {"T1"},
     Amount : {0, 10000, -10000},
     Type : {TransactionTypeDebit, TransactionTypeCredit, "OTHER"},
     TransactionTime : {Day1, Day1 + 630, Day1 + 1439, Day2, Day2 + 630}]

MatchBankUniverse ==
    [BankName : {"A"},
     UniqueID : {"B1"},
     Amount : {0, 10000, -10000, 10100, -10100, 9900, 10110, -10110, 10149,
               10160, 9840, 10200, -10200, 20000},
     Date : {Day1, Day2}]

\* longest CSV file, in records (the header line included)
MaxRecords == 3

Day3 == 3 * MinutesPerDay

\* the zero time.Time, for which IsZero() holds
ZeroTime == 0

\* the two layouts given to time.Parse
LayoutDateTime == "2006-01-02 15:04:05"

LayoutDate == "2006-01-02"

\* records of a system transactions file, as encoding/csv yields them: a
\* header, three well-formed rows on three days, a row with an unparsable
\* amount, one with a negative amount, one with a date without time, one
\* with a fifth field, and one whose type is neither DEBIT nor CREDIT
SystemRecordUniverse ==
    { <<"trxID", "amount", "type", "transactionTime">>,
      <<"T1", "1.00", "DEBIT", "2024-01-01 10:00:00">>,
      <<"T2", "1.00", "CREDIT", "2024-01-02 23:59:00">>,
      <<"T3", "1.00", "DEBIT", "2024-01-03 00:00:00">>,
      <<"T4", "abc", "DEBIT", "2024-01-01 10:00:00">>,
      <<"T5", "-1.00", "DEBIT", "2024-01-03 00:00:00">>,
      <<"T6", "1.00", "DEBIT", "2024-01-02">>,
      <<"T7", "1.00", "DEBIT", "2024-01-01 10:00:00", "x">>,
      <<"T8", "1.00", "REFUND", "2024-01-01 10:00:00">> }

\* records of a bank statement file: a header, three well-formed rows on
\* three days (one with a negative amount), a row with an unparsable amount,
\* one with a date followed by a time, and one with a fourth field
BankRecordUniverse ==
    { <<"unique_identifier", "amount", "date">>,
      <<"B1", "1.00", "2024-01-01">>,
      <<"B2", "-1.00", "2024-01-02">>,
      <<"B3", "1.00", "2024-01-03">>,
      <<"B4", "abc", "2024-01-01">>,
      <<"B5", "1.00", "2024-01-01 10:00:00">>,
      <<"B6", "1.00", "2024-01-01", "x">> }

\* the time ranges given with WithTimeRange: none, two days, one day up to
\* its last minute, an end before the start, and a start without an end
TimeRangeUniverse ==
    { <<ZeroTime, ZeroTime>>, <<Day1, Day2>>, <<Day2, Day2 + 1439>>,
      <<Day2, Day1>>, <<Day1, ZeroTime>> }

\* the file names given with WithFilename
FilenameUniverse == {"data/bca.csv", "Mandiri.CSV"}

\* most bank files given to readBankStatements
MaxFiles == 2

\* a bank file as readBankStatements meets it: its name and what becomes of
\* it: os.Open fails, the CSV reader fails, or the reader returns no, one or
\* two statements
BankFileUniverse ==
    [filename : FilenameUniverse,
     outcome : {"openfail", "readfail", "empty", "one", "two"}]

\* the flags of a CLI run: a flag that is not given is the empty string
FlagsUniverse ==
    [systemFile : {"", "system.csv"},
     bankFile : {"", "banks"},
     startDate : {"", "2024-01-01", "2024-01-02", "01/01/2024"},
     endDate : {"", "2024-01-01", "2024-01-02", "01/01/2024"},
     print : BOOLEAN,
     outputFile : {"", "out.json"}]

\* what the files make of the steps of a run: whether the system file is
\* read, the bank files are found, the bank files are read and the JSON
\* file is written without error
EnvUniverse ==
    [readSystem : BOOLEAN, processBank : BOOLEAN, readBank : BOOLEAN,
     generateJSON : BOOLEAN]

\* inputs of a run whose bank sequence is merged from the sources A and B:
\* system amounts 1.00 and 1.01 against bank amounts 1.01 (A) and 0.99 (B),
\* a record of B on another day that carries an id A also uses, and a debit
MergeSystemUniverse ==
    { [TrxID |-> "T1", Amount |-> 10000, Type |-> TransactionTypeCredit,
       TransactionTime |-> Day1 + 630],
      [TrxID |-> "T2", Amount |-> 10100, Type |-> TransactionTypeCredit,
       TransactionTime |-> Day1 + 630],
      [TrxID |-> "T3", Amount |-> 10000, Type |-> TransactionTypeDebit,
       TransactionTime |-> Day1 + 630] }

MergeBankUniverse ==
    { [BankName |-> "A", UniqueID |-> "B1", Amount |-> 10100, Date |-> Day1],
      [BankName |-> "B", UniqueID |-> "B2", Amount |-> 9900, Date |-> Day1],
      [BankName |-> "B", UniqueID |-> "B1", Amount |-> 10000, Date |-> Day2],
      [BankName |-> "A", UniqueID |-> "B3", Amount |-> -10000, Date |-> Day1] }

\* inputs of two concurrent invocations of Reconcile, disjoint but for the
\* id B1 that a record of each invocation carries
ConcSystemUniverse(inv) ==
    IF inv = 1
    THEN { [TrxID |-> "T1", Amount |-> 10000, Type |-> TransactionTypeCredit,
            TransactionTime |-> Day1 + 630] }
    ELSE { [TrxID |-> "T2", Amount |-> 10000, Type |-> TransactionTypeCredit,
            TransactionTime |-> Day1 + 690] }

ConcBankUniverse(inv) ==
    IF inv = 1
    THEN { [BankName |-> "A", UniqueID |-> "B1", Amount |-> 10000,
            Date |-> Day1],
           [BankName |-> "A", UniqueID |-> "B2", Amount |-> 10200,
            Date |-> Day1] }
    ELSE { [BankName |-> "B", UniqueID |-> "B1", Amount |-> 10000,
            Date |-> Day1] }

\* unmatched records of a result that String() renders: bank statements of
\* two sources, one system transaction
StringBankUniverse ==
    { [BankName |-> "A", UniqueID |-> "B1", Amount |-> 10000, Date |-> Day1],
      [BankName |-> "A", UniqueID |-> "B3", Amount |-> 10140, Date |-> Day1],
      [BankName |-> "B", UniqueID |-> "B2", Amount |-> -2500, Date |-> Day2] }

StringSystemUniverse ==
    { [TrxID |-> "T1", Amount |-> 10000, Type |-> TransactionTypeCredit,
       TransactionTime |-> Day1 + 630] }

\* the number of calls of String() on one result
Calls == 2

\* inputs at the edges of the domain: a negative and a zero system amount,
\* a repeated id, zero and negative bank amounts, and the two system and two
\* bank records of the test "Multiple transactions with mixed matches"
\* (100.00, 200.00 against 100.00, 200.0021 on the same day)
EdgeSystemUniverse ==
    { [TrxID |-> "T1", Amount |-> -10000, Type |-> TransactionTypeDebit,
       TransactionTime |-> Day1 + 630],
      [TrxID |-> "T1", Amount |-> 1000000, Type |-> TransactionTypeCredit,
       TransactionTime |-> Day1 + 630],
      [TrxID |-> "T2", Amount |-> 2000000, Type |-> TransactionTypeCredit,
       TransactionTime |-> Day1 + 690],
      [TrxID |-> "T2", Amount |-> 0, Type |-> TransactionTypeCredit,
       TransactionTime |-> Day1 + 690] }

EdgeBankUniverse ==
    { [BankName |-> "A", UniqueID |-> "B1", Amount |-> 1000000, Date |-> Day1],
      [BankName |-> "A", UniqueID |-> "B2", Amount |-> 2000021, Date |-> Day1],
      [BankName |-> "A", UniqueID |-> "B1", Amount |-> 0, Date |-> Day1],
      [BankName |-> "A", UniqueID |-> "B1", Amount |-> -10000, Date |-> Day1] }

SeqsUpTo(S, n) == UNION {[1..m -> S] : m \in 0..n}

(***************************************************************************)
(* State.                                                                  *)
(***************************************************************************)
VARIABLES
    system,         \* Reconcile's argument system []types.Transaction
    bank,           \* Reconcile's argument bank []types.BankStatement
    pc,             \* position in Reconcile
    i,              \* index of sysTx in the loop over system
    j,              \* index of bankTx in the loops over bank
    matched,        \* local flag of the loop over system
    matchedSystem,  \* keys of the map matchedSystem
    matchedBank,    \* keys of the map matchedBank
    result,         \* the ReconcileResult under construction
    pairs,          \* history: <<i, j>> of every pair matched, in order
    sysTx,          \* argument of a single isMatch call
    bankTx,         \* argument of a single isMatch call
    mpc,            \* position of the single isMatch call
    isMatchResult   \* value returned by the single isMatch call

\* a second call of Reconcile on the same arguments
VARIABLES
    run,            \* number of the current call of Reconcile
    firstResult     \* value returned by the first call

rerunVars == <<run, firstResult>>

\* one call of a CSV reader
VARIABLES
    csvKind,        \* "system" or "bank": which of the two readers is called
    records,        \* the records r.reader.ReadAll() finds in the file
    skipHeader,     \* r.skipHeader
    rStart,         \* r.start
    rEnd,           \* r.end
    filename,       \* r.filename
    cpc,            \* position in the reader
    recIdx,         \* 1-based position in records of the row being read
    transactions,   \* the slice ReadSystemTransactionsFromCSV builds/returns
    statements,     \* the slice ReadBankStatementsFromCSV builds/returns
    csvErr          \* the error returned: its kind and the row it names

csvVars == <<csvKind, records, skipHeader, rStart, rEnd, filename, cpc,
             recIdx, transactions, statements, csvErr>>

\* one call of readBankStatements
VARIABLES
    bankFiles,      \* the files to read
    rpc,            \* position of readBankStatements itself
    spawned,        \* number of reader goroutines started by the loop
    gpc,            \* position of each reader goroutine
    wg,             \* counter of the sync.WaitGroup
    resultCh,       \* the results buffered in the channel
    chClosed,       \* whether resultCh has been closed
    closerPc,       \* position of the goroutine that closes resultCh
    bankStatements, \* the local slice the results are appended to
    readRet,        \* the statements returned
    readErr         \* the error returned

bankReadVars == <<bankFiles, rpc, spawned, gpc, wg, resultCh, chClosed,
                  closerPc, bankStatements, readRet, readErr>>

\* one run of the command (rootCmd.RunE)
VARIABLES
    flags,            \* the values of the flags
    env,              \* which steps the files let succeed
    clipc,            \* position in RunE
    stepsDone,        \* the ingestion steps that have succeeded so far
    reconcileCalled,  \* whether reconcile.Reconcile has been called
    reportPrinted,    \* whether result.String() has been printed
    jsonWritten,      \* whether the output JSON file has been written
    cliErr,           \* the error RunE returns
    errorPrinted,     \* whether main has printed "Error: ..."
    exitStatus        \* the exit status of the process, -1 while it runs

cliVars == <<flags, env, clipc, stepsDone, reconcileCalled, reportPrinted,
             jsonWritten, cliErr, errorPrinted, exitStatus>>

\* a second invocation of Reconcile that runs concurrently
VARIABLES
    other,          \* the local state of the invocation that is not running
    running         \* which of the two invocations is running, 1 or 2

concVars == <<other, running>>

\* calls of String() on a result
VARIABLES
    spc,            \* how far the calls of String() have come
    rendered        \* the texts returned so far, one per call

stringVars == <<spc, rendered>>

sideVars == <<concVars, stringVars>>

\* the state outside Reconcile and isMatch
ioVars == <<rerunVars, csvVars, bankReadVars, cliVars, sideVars>>

vars == <<system, bank, pc, i, j, matched, matchedSystem, matchedBank,
          result, pairs, sysTx, bankTx, mpc, isMatchResult, ioVars>>

reconcileVars == <<system, bank, pc, i, j, matched, matchedSystem,
                   matchedBank, result, pairs>>

matchVars == <<sysTx, bankTx, mpc, isMatchResult>>

(***************************************************************************)
(* Pure functions of reconcile.go.                                         *)
(***************************************************************************)
\* abs returns the absolute value of a float64
abs(value) == IF value < 0 THEN -value ELSE value

\* variant of round: drops the digits after the second decimal
round_Truncate(value) ==
    IF value >= 0 THEN (value \div 100) * 100
                  ELSE -((-value \div 100) * 100)

\* math.Round(value*100) / 100: nearest cent, halves away from zero
round(value) ==
    IF value >= 0 THEN ((value + 50) \div 100) * 100
                  ELSE -(((-value + 50) \div 100) * 100)

\* variant of FormatDate: a layout that keeps the time of day
FormatDate_WithTime(t) == t

\* time.Time.Format("2006-01-02"): the calendar day of the instant
FormatDate(t) == t \div MinutesPerDay

\* variant of isMatch: a bank amount of zero contradicts both directions
isMatch_StrictSign(s, b) ==
    LET bankAmount == b.Amount IN
    IF s.Type = "DEBIT" /\ bankAmount >= 0 THEN FALSE
    ELSE IF s.Type = "CREDIT" /\ bankAmount <= 0 THEN FALSE
    ELSE IF round(abs(s.Amount - abs(bankAmount))) > amountTolerance THEN FALSE
    ELSE FormatDate(s.TransactionTime) = FormatDate(b.Date)

\* variant of isMatch: a difference equal to the tolerance is rejected
isMatch_ExclusiveTolerance(s, b) ==
    LET bankAmount == b.Amount IN
    IF s.Type = "DEBIT" /\ bankAmount > 0 THEN FALSE
    ELSE IF s.Type = "CREDIT" /\ bankAmount < 0 THEN FALSE
    ELSE IF round(abs(s.Amount - abs(bankAmount))) >= amountTolerance THEN FALSE
    ELSE FormatDate(s.TransactionTime) = FormatDate(b.Date)

\* func isMatch(sysTx types.Transaction, bankTx types.BankStatement) bool
\* variant of isMatch: the dates are not compared
isMatch_IgnoresDate(s, b) ==
    LET bankAmount == b.Amount IN
    IF s.Type = "DEBIT" /\ bankAmount > 0 THEN FALSE
    ELSE IF s.Type = "CREDIT" /\ bankAmount < 0 THEN FALSE
    ELSE IF round(abs(s.Amount - abs(bankAmount))) > amountTolerance THEN FALSE
    ELSE TRUE

\* variant of isMatch: the amounts must be equal, no tolerance
isMatch_ExactAmount(s, b) ==
    LET bankAmount == b.Amount IN
    IF s.Type = "DEBIT" /\ bankAmount > 0 THEN FALSE
    ELSE IF s.Type = "CREDIT" /\ bankAmount < 0 THEN FALSE
    ELSE IF s.Amount # abs(bankAmount) THEN FALSE
    ELSE FormatDate(s.TransactionTime) = FormatDate(b.Date)

isMatch(s, b) ==
    LET bankAmount == b.Amount IN
    IF s.Type = "DEBIT" /\ bankAmount > 0 THEN FALSE
    ELSE IF s.Type = "CREDIT" /\ bankAmount < 0 THEN FALSE
    ELSE IF round(abs(s.Amount - abs(bankAmount))) > amountTolerance THEN FALSE
    ELSE FormatDate(s.TransactionTime) = FormatDate(b.Date)

\* the zero value of ReconcileResult
ZeroResult ==
    [TransactionProcessed |-> 0,
     TransactionMatched |-> 0,
     TransactionUnmatched |->
        [TransactionUnmatched |-> 0,
         SystemUnmatched |-> <<>>,
         BankUnmatched |-> <<>>],
     TotalDiscrepancies |-> 0]

(***************************************************************************)
(* The conversions the CSV readers apply to the fields of a record.        *)
(***************************************************************************)
\* strconv.ParseFloat(text, 64) on the amount texts of the record universes
ParseFloat(text) ==
    CASE text = "1.00" -> [ok |-> TRUE, value |-> 10000]
      [] text = "-1.00" -> [ok |-> TRUE, value |-> -10000]
      [] OTHER -> [ok |-> FALSE, value |-> 0]

\* time.Parse(layout, text) on the date texts of the record universes: a
\* text parses under the layout it is written in and under no other
ParseTime(layout, text) ==
    CASE layout = LayoutDateTime /\ text = "2024-01-01 10:00:00"
            -> [ok |-> TRUE, value |-> Day1 + 600]
      [] layout = LayoutDateTime /\ text = "2024-01-02 23:59:00"
            -> [ok |-> TRUE, value |-> Day2 + 1439]
      [] layout = LayoutDateTime /\ text = "2024-01-03 00:00:00"
            -> [ok |-> TRUE, value |-> Day3]
      [] layout = LayoutDate /\ text = "2024-01-01"
            -> [ok |-> TRUE, value |-> Day1]
      [] layout = LayoutDate /\ text = "2024-01-02"
            -> [ok |-> TRUE, value |-> Day2]
      [] layout = LayoutDate /\ text = "2024-01-03"
            -> [ok |-> TRUE, value |-> Day3]
      [] OTHER -> [ok |-> FALSE, value |-> ZeroTime]

\* variant of Truncate: the time is kept as it is
Truncate_Identity(t) == t

\* date.Truncate(24 * time.Hour)
Truncate(t) == (t \div MinutesPerDay) * MinutesPerDay

\* strings.ToUpper(strings.TrimSuffix(filepath.Base(f), filepath.Ext(f)))
BankNameOf(f) ==
    CASE f = "data/bca.csv" -> "BCA"
      [] f = "Mandiri.CSV" -> "MANDIRI"
      [] OTHER -> ""

\* encoding/csv ReadAll with FieldsPerRecord = 0: the position of the first
\* record whose number of fields differs from that of the first record, 0 if
\* there is none
WrongNumberOfFields(recs) ==
    LET odd == {k \in 1..Len(recs) : Len(recs[k]) # Len(recs[1])}
    IN IF odd = {} THEN 0 ELSE CHOOSE k \in odd : \A m \in odd : k <= m

hasTimeRange == rStart # ZeroTime /\ rEnd # ZeroTime

startIdx == IF skipHeader THEN 1 ELSE 0

NoError == [kind |-> "none", row |-> 0]

\* no reader is running
CsvIdle ==
    /\ csvKind = "none"
    /\ records = <<>>
    /\ skipHeader = FALSE
    /\ rStart = ZeroTime
    /\ rEnd = ZeroTime
    /\ filename = ""
    /\ cpc = "idle"
    /\ recIdx = 0
    /\ transactions = <<>>
    /\ statements = <<>>
    /\ csvErr = NoError

\* readBankStatements is not running
BankReadIdle ==
    /\ bankFiles = <<>>
    /\ rpc = "idle"
    /\ spawned = 0
    /\ gpc = <<>>
    /\ wg = 0
    /\ resultCh = <<>>
    /\ chClosed = FALSE
    /\ closerPc = "none"
    /\ bankStatements = <<>>
    /\ readRet = <<>>
    /\ readErr = "none"

\* the command is not running
CliIdle ==
    /\ flags = [systemFile |-> "", bankFile |-> "", startDate |-> "",
                endDate |-> "", print |-> FALSE, outputFile |-> ""]
    /\ env = [readSystem |-> FALSE, processBank |-> FALSE,
              readBank |-> FALSE, generateJSON |-> FALSE]
    /\ clipc = "idle"
    /\ stepsDone = {}
    /\ reconcileCalled = FALSE
    /\ reportPrinted = FALSE
    /\ jsonWritten = FALSE
    /\ cliErr = "none"
    /\ errorPrinted = FALSE
    /\ exitStatus = -1

\* no second call of Reconcile
RerunIdle ==
    /\ run = 1
    /\ firstResult = ZeroResult

\* nothing outside Reconcile and isMatch is running
\* the local state of an invocation of Reconcile that has not been made
IdleContext ==
    [system |-> <<>>, bank |-> <<>>, pc |-> "idle", i |-> 0, j |-> 0,
     matched |-> FALSE, matchedSystem |-> {}, matchedBank |-> {},
     result |-> ZeroResult, pairs |-> <<>>]

\* there is no second invocation
ConcIdle ==
    /\ other = IdleContext
    /\ running = 1

\* String() is not called
StringIdle ==
    /\ spc = "idle"
    /\ rendered = <<>>

SideIdle == ConcIdle /\ StringIdle

IoIdle == RerunIdle /\ CsvIdle /\ BankReadIdle /\ CliIdle /\ SideIdle

(***************************************************************************)
(* Reconcile, one action per step of its loops.                            *)
(***************************************************************************)
Init ==
    /\ system \in SeqsUpTo(SystemUniverse, MaxSystem)
    /\ bank \in SeqsUpTo(BankUniverse, MaxBank)
    /\ pc = "call"
    /\ i = 0
    /\ j = 0
    /\ matched = FALSE
    /\ matchedSystem = {}
    /\ matchedBank = {}
    /\ result = ZeroResult
    /\ pairs = <<>>
    /\ sysTx = [TrxID |-> "T1", Amount |-> 0, Type |-> "CREDIT",
                TransactionTime |-> Day1]
    /\ bankTx = [BankName |-> "A", UniqueID |-> "B1", Amount |-> 0,
                 Date |-> Day1]
    /\ mpc = "idle"
    /\ isMatchResult = FALSE
    /\ IoIdle

\* variant of ReconcileBegin: the bank statements are counted as processed
ReconcileBegin_CountsBank ==
    /\ pc = "call"
    /\ result' = [ZeroResult EXCEPT !.TransactionProcessed = Len(bank)]
    /\ matchedSystem' = {}
    /\ matchedBank' = {}
    /\ pairs' = <<>>
    /\ i' = 1
    /\ pc' = "system"
    /\ UNCHANGED <<system, bank, j, matched, matchVars, ioVars>>

\* variant of ReconcileBegin: the maps outlive the call (package-level maps)
ReconcileBegin_KeepsMaps ==
    /\ pc = "call"
    /\ result' = [ZeroResult EXCEPT !.TransactionProcessed = Len(system)]
    /\ pairs' = <<>>
    /\ i' = 1
    /\ pc' = "system"
    /\ UNCHANGED <<system, bank, j, matched, matchedSystem, matchedBank,
                   matchVars, ioVars>>

\* lines 12-20: fresh result and maps, TransactionProcessed = len(system)
ReconcileBegin ==
    /\ pc = "call"
    /\ result' = [ZeroResult EXCEPT !.TransactionProcessed = Len(system)]
    /\ matchedSystem' = {}
    /\ matchedBank' = {}
    /\ pairs' = <<>>
    /\ i' = 1
    /\ pc' = "system"
    /\ UNCHANGED <<system, bank, j, matched, matchVars, ioVars>>

\* line 23-24: next sysTx of the range loop, matched := false
SystemNext ==
    /\ pc = "system"
    /\ i <= Len(system)
    /\ matched' = FALSE
    /\ j' = 1
    /\ pc' = "bank"
    /\ UNCHANGED <<system, bank, i, matchedSystem, matchedBank, result, pairs,
                   matchVars, ioVars>>

\* lines 27-29: skip already matched bank transactions
BankSkip ==
    /\ pc = "bank"
    /\ j <= Len(bank)
    /\ bank[j].UniqueID \in matchedBank
    /\ j' = j + 1
    /\ UNCHANGED <<system, bank, pc, i, matched, matchedSystem, matchedBank,
                   result, pairs, matchVars, ioVars>>

\* variant of BankNoMatch: the scan ends at the first record that does not
\* match
BankNoMatch_EndsScan ==
    /\ pc = "bank"
    /\ j <= Len(bank)
    /\ bank[j].UniqueID \notin matchedBank
    /\ ~isMatch(system[i], bank[j])
    /\ j' = Len(bank) + 1
    /\ UNCHANGED <<system, bank, pc, i, matched, matchedSystem, matchedBank,
                   result, pairs, matchVars, ioVars>>

\* line 31 false: try the next bank transaction
BankNoMatch ==
    /\ pc = "bank"
    /\ j <= Len(bank)
    /\ bank[j].UniqueID \notin matchedBank
    /\ ~isMatch(system[i], bank[j])
    /\ j' = j + 1
    /\ UNCHANGED <<system, bank, pc, i, matched, matchedSystem, matchedBank,
                   result, pairs, matchVars, ioVars>>

\* variant of BankMatch: the bank statement is not marked as matched
BankMatch_NoMark ==
    /\ pc = "bank"
    /\ j <= Len(bank)
    /\ bank[j].UniqueID \notin matchedBank
    /\ isMatch(system[i], bank[j])
    /\ matched' = TRUE
    /\ matchedSystem' = matchedSystem \cup {system[i].TrxID}
    /\ result' =
         [result EXCEPT
            !.TransactionMatched = @ + 1,
            !.TotalDiscrepancies =
                @ + round(abs(system[i].Amount - abs(bank[j].Amount)))]
    /\ pairs' = Append(pairs, <<i, j>>)
    /\ pc' = "after"
    /\ UNCHANGED <<system, bank, i, j, matchedBank, matchVars, ioVars>>

\* variant of BankMatch: no break, the scan goes on after a match
BankMatch_NoBreak ==
    /\ pc = "bank"
    /\ j <= Len(bank)
    /\ bank[j].UniqueID \notin matchedBank
    /\ isMatch(system[i], bank[j])
    /\ matched' = TRUE
    /\ matchedSystem' = matchedSystem \cup {system[i].TrxID}
    /\ matchedBank' = matchedBank \cup {bank[j].UniqueID}
    /\ result' =
         [result EXCEPT
            !.TransactionMatched = @ + 1,
            !.TotalDiscrepancies =
                @ + round(abs(system[i].Amount - abs(bank[j].Amount)))]
    /\ pairs' = Append(pairs, <<i, j>>)
    /\ j' = j + 1
    /\ UNCHANGED <<system, bank, pc, i, matchVars, ioVars>>

\* variant of BankMatch: the discrepancy is added without rounding
BankMatch_RawDiscrepancy ==
    /\ pc = "bank"
    /\ j <= Len(bank)
    /\ bank[j].UniqueID \notin matchedBank
    /\ isMatch(system[i], bank[j])
    /\ matched' = TRUE
    /\ matchedSystem' = matchedSystem \cup {system[i].TrxID}
    /\ matchedBank' = matchedBank \cup {bank[j].UniqueID}
    /\ result' =
         [result EXCEPT
            !.TransactionMatched = @ + 1,
            !.TotalDiscrepancies =
                @ + abs(system[i].Amount - abs(bank[j].Amount))]
    /\ pairs' = Append(pairs, <<i, j>>)
    /\ pc' = "after"
    /\ UNCHANGED <<system, bank, i, j, matchVars, ioVars>>

\* variant of BankMatch: the amount of the paired bank statement is replaced
\* in the argument by its absolute value
BankMatch_NormalisesAmount ==
    /\ pc = "bank"
    /\ j <= Len(bank)
    /\ bank[j].UniqueID \notin matchedBank
    /\ isMatch(system[i], bank[j])
    /\ matched' = TRUE
    /\ matchedSystem' = matchedSystem \cup {system[i].TrxID}
    /\ matchedBank' = matchedBank \cup {bank[j].UniqueID}
    /\ result' =
         [result EXCEPT
            !.TransactionMatched = @ + 1,
            !.TotalDiscrepancies =
                @ + round(abs(system[i].Amount - abs(bank[j].Amount)))]
    /\ pairs' = Append(pairs, <<i, j>>)
    /\ pc' = "after"
    /\ bank' = [bank EXCEPT ![j].Amount = abs(@)]
    /\ UNCHANGED <<system, i, j, matchVars, ioVars>>

\* lines 31-40: first match, record it and break
BankMatch ==
    /\ pc = "bank"
    /\ j <= Len(bank)
    /\ bank[j].UniqueID \notin matchedBank
    /\ isMatch(system[i], bank[j])
    /\ matched' = TRUE
    /\ matchedSystem' = matchedSystem \cup {system[i].TrxID}
    /\ matchedBank' = matchedBank \cup {bank[j].UniqueID}
    /\ result' =
         [result EXCEPT
            !.TransactionMatched = @ + 1,
            !.TotalDiscrepancies =
                @ + round(abs(system[i].Amount - abs(bank[j].Amount)))]
    /\ pairs' = Append(pairs, <<i, j>>)
    /\ pc' = "after"
    /\ UNCHANGED <<system, bank, i, j, matchVars, ioVars>>

\* line 25: the range over bank is exhausted
\* variant of BankEnd: the inner scan starts over instead of ending
BankEnd_Restart ==
    /\ pc = "bank"
    /\ j > Len(bank)
    /\ j' = 1
    /\ UNCHANGED <<system, bank, pc, i, matched, matchedSystem, matchedBank,
                   result, pairs, matchVars, ioVars>>

BankEnd ==
    /\ pc = "bank"
    /\ j > Len(bank)
    /\ pc' = "after"
    /\ UNCHANGED <<system, bank, i, j, matched, matchedSystem, matchedBank,
                   result, pairs, matchVars, ioVars>>

\* lines 43-46: no match found, the system transaction is unmatched
SystemUnmatched ==
    /\ pc = "after"
    /\ ~matched
    /\ result' =
         [result EXCEPT
            !.TransactionUnmatched.TransactionUnmatched = @ + 1,
            !.TransactionUnmatched.SystemUnmatched = Append(@, system[i])]
    /\ i' = i + 1
    /\ pc' = "system"
    /\ UNCHANGED <<system, bank, j, matched, matchedSystem, matchedBank,
                   pairs, matchVars, ioVars>>

\* line 43 false: a match was found, go on with the next sysTx
SystemMatched ==
    /\ pc = "after"
    /\ matched
    /\ i' = i + 1
    /\ pc' = "system"
    /\ UNCHANGED <<system, bank, j, matched, matchedSystem, matchedBank,
                   result, pairs, matchVars, ioVars>>

\* line 23 exhausted, line 50: start collecting unmatched bank statements
CollectBegin ==
    /\ pc = "system"
    /\ i > Len(system)
    /\ j' = 1
    /\ pc' = "collect"
    /\ UNCHANGED <<system, bank, i, matched, matchedSystem, matchedBank,
                   result, pairs, matchVars, ioVars>>

\* variant of CollectUnmatched: the statement is copied without its BankName
CollectUnmatched_NoBankName ==
    /\ pc = "collect"
    /\ j <= Len(bank)
    /\ bank[j].UniqueID \notin matchedBank
    /\ result' =
         [result EXCEPT
            !.TransactionUnmatched.TransactionUnmatched = @ + 1,
            !.TransactionUnmatched.BankUnmatched =
                Append(@, [bank[j] EXCEPT !.BankName = ""])]
    /\ j' = j + 1
    /\ UNCHANGED <<system, bank, pc, i, matched, matchedSystem, matchedBank,
                   pairs, matchVars, ioVars>>

\* variant of CollectUnmatched: the statement is appended but not counted
CollectUnmatched_NoCount ==
    /\ pc = "collect"
    /\ j <= Len(bank)
    /\ bank[j].UniqueID \notin matchedBank
    /\ result' =
         [result EXCEPT
            !.TransactionUnmatched.BankUnmatched = Append(@, bank[j])]
    /\ j' = j + 1
    /\ UNCHANGED <<system, bank, pc, i, matched, matchedSystem, matchedBank,
                   pairs, matchVars, ioVars>>

\* lines 51-54: a bank statement whose id is not in matchedBank is unmatched
CollectUnmatched ==
    /\ pc = "collect"
    /\ j <= Len(bank)
    /\ bank[j].UniqueID \notin matchedBank
    /\ result' =
         [result EXCEPT
            !.TransactionUnmatched.TransactionUnmatched = @ + 1,
            !.TransactionUnmatched.BankUnmatched = Append(@, bank[j])]
    /\ j' = j + 1
    /\ UNCHANGED <<system, bank, pc, i, matched, matchedSystem, matchedBank,
                   pairs, matchVars, ioVars>>

\* line 51 false: the id is in matchedBank
CollectMatched ==
    /\ pc = "collect"
    /\ j <= Len(bank)
    /\ bank[j].UniqueID \in matchedBank
    /\ j' = j + 1
    /\ UNCHANGED <<system, bank, pc, i, matched, matchedSystem, matchedBank,
                   result, pairs, matchVars, ioVars>>

\* line 57: return result
ReconcileReturn ==
    /\ pc = "collect"
    /\ j > Len(bank)
    /\ pc' = "done"
    /\ UNCHANGED <<system, bank, i, j, matched, matchedSystem, matchedBank,
                   result, pairs, matchVars, ioVars>>

Next ==
    \/ ReconcileBegin
    \/ SystemNext
    \/ BankSkip
    \/ BankNoMatch
    \/ BankMatch
    \/ BankEnd
    \/ SystemUnmatched
    \/ SystemMatched
    \/ CollectBegin
    \/ CollectUnmatched
    \/ CollectMatched
    \/ ReconcileReturn

Spec == Init /\ [][Next]_vars

(***************************************************************************)
(* Reconcile on inputs at the edges of its domain.  Reconcile is a         *)
(* sequential function: once called it keeps taking steps until it         *)
(* returns, which is the weak fairness of Next.                            *)
(***************************************************************************)
InitEdge ==
    /\ system \in SeqsUpTo(EdgeSystemUniverse, MaxSystem)
    /\ bank \in SeqsUpTo(EdgeBankUniverse, MaxBank)
    /\ pc = "call"
    /\ i = 0
    /\ j = 0
    /\ matched = FALSE
    /\ matchedSystem = {}
    /\ matchedBank = {}
    /\ result = ZeroResult
    /\ pairs = <<>>
    /\ sysTx = [TrxID |-> "T1", Amount |-> 0, Type |-> "CREDIT",
                TransactionTime |-> Day1]
    /\ bankTx = [BankName |-> "A", UniqueID |-> "B1", Amount |-> 0,
                 Date |-> Day1]
    /\ mpc = "idle"
    /\ isMatchResult = FALSE
    /\ IoIdle

SpecEdge == InitEdge /\ [][Next]_vars /\ WF_vars(Next)

(***************************************************************************)
(* Reconcile called a second time with the same arguments.                 *)
(***************************************************************************)
\* what the second call leaves alone outside Reconcile and isMatch
rerunFrame == <<csvVars, bankReadVars, cliVars, sideVars>>

\* the caller keeps the first result and calls Reconcile(system, bank) again
ReconcileAgain ==
    /\ pc = "done"
    /\ run = 1
    /\ firstResult' = result
    /\ run' = 2
    /\ pc' = "call"
    /\ UNCHANGED <<system, bank, i, j, matched, matchedSystem, matchedBank,
                   result, pairs, matchVars, rerunFrame>>

NextRerun ==
    \/ ReconcileBegin
    \/ SystemNext
    \/ BankSkip
    \/ BankNoMatch
    \/ BankMatch
    \/ BankEnd
    \/ SystemUnmatched
    \/ SystemMatched
    \/ CollectBegin
    \/ CollectUnmatched
    \/ CollectMatched
    \/ ReconcileReturn
    \/ ReconcileAgain

SpecRerun == Init /\ [][NextRerun]_vars

(***************************************************************************)
(* Reconcile on a bank sequence merged from whole sources, then on the     *)
(* same sources merged in another order (readBankStatements appends the    *)
(* statements of a file as one block, in the order the results arrive).    *)
(***************************************************************************)
\* the statements of each source (BankName) form one block of the sequence
WholeSources(b) ==
    \A p, q, r \in 1..Len(b) :
        (p < q /\ q < r /\ b[p].BankName = b[r].BankName)
            => b[q].BankName = b[p].BankName

\* the statements of one source, in their order in the sequence
SourceRows(b, name) ==
    SelectSeq(b, LAMBDA x : x.BankName = name)

\* the sequences that merge the sources of b in some order
MergeOrders(b) ==
    {c \in [1..Len(b) -> {b[p] : p \in 1..Len(b)}] :
        /\ WholeSources(c)
        /\ \A name \in {b[p].BankName : p \in 1..Len(b)} :
              SourceRows(c, name) = SourceRows(b, name)}

InitMerge ==
    /\ system \in SeqsUpTo(MergeSystemUniverse, MaxSystem)
    /\ bank \in {b \in SeqsUpTo(MergeBankUniverse, MaxBank) : WholeSources(b)}
    /\ pc = "call"
    /\ i = 0
    /\ j = 0
    /\ matched = FALSE
    /\ matchedSystem = {}
    /\ matchedBank = {}
    /\ result = ZeroResult
    /\ pairs = <<>>
    /\ sysTx = [TrxID |-> "T1", Amount |-> 0, Type |-> "CREDIT",
                TransactionTime |-> Day1]
    /\ bankTx = [BankName |-> "A", UniqueID |-> "B1", Amount |-> 0,
                 Date |-> Day1]
    /\ mpc = "idle"
    /\ isMatchResult = FALSE
    /\ IoIdle

\* the caller keeps the first result and calls Reconcile on the same system
\* transactions and the same sources merged in any order
ReconcileOtherOrder ==
    /\ pc = "done"
    /\ run = 1
    /\ bank' \in MergeOrders(bank)
    /\ firstResult' = result
    /\ run' = 2
    /\ pc' = "call"
    /\ UNCHANGED <<system, i, j, matched, matchedSystem, matchedBank,
                   result, pairs, matchVars, rerunFrame>>

NextMerge ==
    \/ ReconcileBegin
    \/ SystemNext
    \/ BankSkip
    \/ BankNoMatch
    \/ BankMatch
    \/ BankEnd
    \/ SystemUnmatched
    \/ SystemMatched
    \/ CollectBegin
    \/ CollectUnmatched
    \/ CollectMatched
    \/ ReconcileReturn
    \/ ReconcileOtherOrder

SpecMerge == InitMerge /\ [][NextMerge]_vars

(***************************************************************************)
(* Two invocations of Reconcile in two goroutines.  Everything Reconcile   *)
(* writes is local to the invocation (lines 12-20), so a switch from one   *)
(* goroutine to the other exchanges the whole local state.                 *)
(***************************************************************************)
InitConcurrent ==
    /\ system \in SeqsUpTo(ConcSystemUniverse(1), MaxSystem)
    /\ bank \in SeqsUpTo(ConcBankUniverse(1), MaxBank)
    /\ pc = "call"
    /\ i = 0
    /\ j = 0
    /\ matched = FALSE
    /\ matchedSystem = {}
    /\ matchedBank = {}
    /\ result = ZeroResult
    /\ pairs = <<>>
    /\ sysTx = [TrxID |-> "T1", Amount |-> 0, Type |-> "CREDIT",
                TransactionTime |-> Day1]
    /\ bankTx = [BankName |-> "A", UniqueID |-> "B1", Amount |-> 0,
                 Date |-> Day1]
    /\ mpc = "idle"
    /\ isMatchResult = FALSE
    /\ \E s \in SeqsUpTo(ConcSystemUniverse(2), MaxSystem),
          b \in SeqsUpTo(ConcBankUniverse(2), MaxBank) :
            other = [IdleContext EXCEPT !.system = s, !.bank = b,
                                        !.pc = "call"]
    /\ running = 1
    /\ StringIdle
    /\ RerunIdle
    /\ CsvIdle
    /\ BankReadIdle
    /\ CliIdle

\* variant of Switch: the map matchedBank is shared by the two invocations
Switch_SharedMatchedBank ==
    /\ other.pc # "idle"
    /\ other' = [system |-> system, bank |-> bank, pc |-> pc, i |-> i,
                 j |-> j, matched |-> matched,
                 matchedSystem |-> matchedSystem, matchedBank |-> {},
                 result |-> result, pairs |-> pairs]
    /\ system' = other.system
    /\ bank' = other.bank
    /\ pc' = other.pc
    /\ i' = other.i
    /\ j' = other.j
    /\ matched' = other.matched
    /\ matchedSystem' = other.matchedSystem
    /\ result' = other.result
    /\ pairs' = other.pairs
    /\ running' = 3 - running
    /\ UNCHANGED <<matchedBank, matchVars, rerunVars, csvVars, bankReadVars,
                   cliVars, stringVars>>

\* the scheduler lets the other goroutine run
Switch ==
    /\ other.pc # "idle"
    /\ other' = [system |-> system, bank |-> bank, pc |-> pc, i |-> i,
                 j |-> j, matched |-> matched,
                 matchedSystem |-> matchedSystem,
                 matchedBank |-> matchedBank,
                 result |-> result, pairs |-> pairs]
    /\ system' = other.system
    /\ bank' = other.bank
    /\ pc' = other.pc
    /\ i' = other.i
    /\ j' = other.j
    /\ matched' = other.matched
    /\ matchedSystem' = other.matchedSystem
    /\ matchedBank' = other.matchedBank
    /\ result' = other.result
    /\ pairs' = other.pairs
    /\ running' = 3 - running
    /\ UNCHANGED <<matchVars, rerunVars, csvVars, bankReadVars, cliVars,
                   stringVars>>

NextConcurrent ==
    \/ ReconcileBegin
    \/ SystemNext
    \/ BankSkip
    \/ BankNoMatch
    \/ BankMatch
    \/ BankEnd
    \/ SystemUnmatched
    \/ SystemMatched
    \/ CollectBegin
    \/ CollectUnmatched
    \/ CollectMatched
    \/ ReconcileReturn
    \/ Switch

SpecConcurrent == InitConcurrent /\ [][NextConcurrent]_vars

(***************************************************************************)
(* A single call of isMatch on arbitrary arguments.                        *)
(***************************************************************************)
InitIsMatch ==
    /\ sysTx \in MatchSystemUniverse
    /\ bankTx \in MatchBankUniverse
    /\ mpc = "call"
    /\ isMatchResult = FALSE
    /\ system = <<>>
    /\ bank = <<>>
    /\ pc = "idle"
    /\ i = 0
    /\ j = 0
    /\ matched = FALSE
    /\ matchedSystem = {}
    /\ matchedBank = {}
    /\ result = ZeroResult
    /\ pairs = <<>>
    /\ IoIdle

CallIsMatch ==
    /\ mpc = "call"
    /\ isMatchResult' = isMatch(sysTx, bankTx)
    /\ mpc' = "returned"
    /\ UNCHANGED <<sysTx, bankTx, reconcileVars, ioVars>>

NextIsMatch == CallIsMatch

SpecIsMatch == InitIsMatch /\ [][NextIsMatch]_vars

(***************************************************************************)
(* One call of a CSV reader on one file.                                   *)
(***************************************************************************)
\* Reconcile and isMatch are not running
EngineIdle ==
    /\ system = <<>>
    /\ bank = <<>>
    /\ pc = "idle"
    /\ i = 0
    /\ j = 0
    /\ matched = FALSE
    /\ matchedSystem = {}
    /\ matchedBank = {}
    /\ result = ZeroResult
    /\ pairs = <<>>
    /\ sysTx = [TrxID |-> "T1", Amount |-> 0, Type |-> "CREDIT",
                TransactionTime |-> Day1]
    /\ bankTx = [BankName |-> "A", UniqueID |-> "B1", Amount |-> 0,
                 Date |-> Day1]
    /\ mpc = "idle"
    /\ isMatchResult = FALSE

\* what a step of a CSV reader leaves alone besides the reader's own state
csvFrame ==
    <<reconcileVars, matchVars, rerunVars, bankReadVars, cliVars, sideVars>>

\* NewCSVReader with its options, then one of the two readers is called
InitCsv ==
    /\ csvKind \in {"system", "bank"}
    /\ records \in SeqsUpTo(IF csvKind = "system" THEN SystemRecordUniverse
                                                  ELSE BankRecordUniverse,
                            MaxRecords)
    /\ skipHeader \in BOOLEAN
    /\ \E range \in TimeRangeUniverse : rStart = range[1] /\ rEnd = range[2]
    /\ filename \in (IF csvKind = "bank" THEN FilenameUniverse
                                         ELSE {"data/system.csv"})
    /\ cpc = "call"
    /\ recIdx = 0
    /\ transactions = <<>>
    /\ statements = <<>>
    /\ csvErr = NoError
    /\ EngineIdle
    /\ SideIdle
    /\ RerunIdle
    /\ BankReadIdle
    /\ CliIdle

\* the reader returns nil and an error naming a row
ReturnError(kind, row) ==
    /\ csvErr' = [kind |-> kind, row |-> row]
    /\ transactions' = <<>>
    /\ statements' = <<>>
    /\ cpc' = "done"
    /\ UNCHANGED <<csvKind, records, skipHeader, rStart, rEnd, filename,
                   recIdx, csvFrame>>

\* the loop goes on to the next record
NextRecord ==
    /\ recIdx' = recIdx + 1
    /\ UNCHANGED <<csvKind, records, skipHeader, rStart, rEnd, filename,
                   cpc, csvErr, csvFrame>>

\* lines 26-29: ReadAll fails on a record with another number of fields
SysReadAllError ==
    /\ csvKind = "system" /\ cpc = "call"
    /\ WrongNumberOfFields(records) # 0
    /\ ReturnError("read", WrongNumberOfFields(records))

\* lines 31-33: no records, an empty slice is returned
SysNoRecords ==
    /\ csvKind = "system" /\ cpc = "call"
    /\ WrongNumberOfFields(records) = 0
    /\ Len(records) = 0
    /\ cpc' = "done"
    /\ UNCHANGED <<csvKind, records, skipHeader, rStart, rEnd, filename,
                   recIdx, transactions, statements, csvErr, csvFrame>>

\* lines 36-47: the loop starts after the header if skipHeader
SysLoopBegin ==
    /\ csvKind = "system" /\ cpc = "call"
    /\ WrongNumberOfFields(records) = 0
    /\ Len(records) # 0
    /\ recIdx' = startIdx + 1
    /\ cpc' = "loop"
    /\ UNCHANGED <<csvKind, records, skipHeader, rStart, rEnd, filename,
                   transactions, statements, csvErr, csvFrame>>

\* lines 48-50: the record has not 4 fields
SysInvalidFormat ==
    /\ csvKind = "system" /\ cpc = "loop" /\ recIdx <= Len(records)
    /\ Len(records[recIdx]) # 4
    /\ ReturnError("format", recIdx)

\* lines 52-55: the amount does not parse
SysInvalidAmount ==
    /\ csvKind = "system" /\ cpc = "loop" /\ recIdx <= Len(records)
    /\ Len(records[recIdx]) = 4
    /\ ~ParseFloat(records[recIdx][2]).ok
    /\ ReturnError("amount", recIdx)

\* lines 58-60: the amount is negative
SysNegativeAmount ==
    /\ csvKind = "system" /\ cpc = "loop" /\ recIdx <= Len(records)
    /\ Len(records[recIdx]) = 4
    /\ ParseFloat(records[recIdx][2]).ok
    /\ ParseFloat(records[recIdx][2]).value < 0
    /\ ReturnError("negative", recIdx)

\* variant of SysInvalidDate: the row is counted from 0
SysInvalidDate_ZeroBasedRow ==
    /\ csvKind = "system" /\ cpc = "loop" /\ recIdx <= Len(records)
    /\ Len(records[recIdx]) = 4
    /\ ParseFloat(records[recIdx][2]).ok
    /\ ParseFloat(records[recIdx][2]).value >= 0
    /\ ~ParseTime(LayoutDateTime, records[recIdx][4]).ok
    /\ ReturnError("date", recIdx - 1)

\* lines 63-66: the date does not parse
SysInvalidDate ==
    /\ csvKind = "system" /\ cpc = "loop" /\ recIdx <= Len(records)
    /\ Len(records[recIdx]) = 4
    /\ ParseFloat(records[recIdx][2]).ok
    /\ ParseFloat(records[recIdx][2]).value >= 0
    /\ ~ParseTime(LayoutDateTime, records[recIdx][4]).ok
    /\ ReturnError("date", recIdx)

\* the record passes the four checks of lines 48-66
SysRowParses ==
    /\ csvKind = "system" /\ cpc = "loop" /\ recIdx <= Len(records)
    /\ Len(records[recIdx]) = 4
    /\ ParseFloat(records[recIdx][2]).ok
    /\ ParseFloat(records[recIdx][2]).value >= 0
    /\ ParseTime(LayoutDateTime, records[recIdx][4]).ok

\* lines 69-74: the day of the row is outside the range, the row is skipped
SysOutOfRange ==
    /\ SysRowParses
    /\ hasTimeRange
    /\ LET dateForComparison ==
               Truncate(ParseTime(LayoutDateTime, records[recIdx][4]).value)
       IN dateForComparison < rStart \/ dateForComparison > rEnd
    /\ NextRecord
    /\ UNCHANGED <<transactions, statements>>

\* lines 76-81: the row is appended
SysAppend ==
    /\ SysRowParses
    /\ hasTimeRange =>
          LET dateForComparison ==
                  Truncate(ParseTime(LayoutDateTime, records[recIdx][4]).value)
          IN ~(dateForComparison < rStart \/ dateForComparison > rEnd)
    /\ transactions' = Append(transactions,
          [TrxID |-> records[recIdx][1],
           Amount |-> ParseFloat(records[recIdx][2]).value,
           Type |-> records[recIdx][3],
           TransactionTime |->
               ParseTime(LayoutDateTime, records[recIdx][4]).value])
    /\ NextRecord
    /\ UNCHANGED statements

\* line 83: the loop is over, the transactions are returned
SysReturn ==
    /\ csvKind = "system" /\ cpc = "loop" /\ recIdx > Len(records)
    /\ cpc' = "done"
    /\ UNCHANGED <<csvKind, records, skipHeader, rStart, rEnd, filename,
                   recIdx, transactions, statements, csvErr, csvFrame>>

\* lines 88-91: ReadAll fails on a record with another number of fields
BankReadAllError ==
    /\ csvKind = "bank" /\ cpc = "call"
    /\ WrongNumberOfFields(records) # 0
    /\ ReturnError("read", WrongNumberOfFields(records))

\* lines 93-95: no records, an empty slice is returned
BankNoRecords ==
    /\ csvKind = "bank" /\ cpc = "call"
    /\ WrongNumberOfFields(records) = 0
    /\ Len(records) = 0
    /\ cpc' = "done"
    /\ UNCHANGED <<csvKind, records, skipHeader, rStart, rEnd, filename,
                   recIdx, transactions, statements, csvErr, csvFrame>>

\* lines 98-114: the loop starts after the header if skipHeader
BankLoopBegin ==
    /\ csvKind = "bank" /\ cpc = "call"
    /\ WrongNumberOfFields(records) = 0
    /\ Len(records) # 0
    /\ recIdx' = startIdx + 1
    /\ cpc' = "loop"
    /\ UNCHANGED <<csvKind, records, skipHeader, rStart, rEnd, filename,
                   transactions, statements, csvErr, csvFrame>>

\* lines 115-117: the record has not 3 fields
BankInvalidFormat ==
    /\ csvKind = "bank" /\ cpc = "loop" /\ recIdx <= Len(records)
    /\ Len(records[recIdx]) # 3
    /\ ReturnError("format", recIdx)

\* lines 119-122: the amount does not parse
BankInvalidAmount ==
    /\ csvKind = "bank" /\ cpc = "loop" /\ recIdx <= Len(records)
    /\ Len(records[recIdx]) = 3
    /\ ~ParseFloat(records[recIdx][2]).ok
    /\ ReturnError("amount", recIdx)

\* lines 125-128: the date does not parse
BankInvalidDate ==
    /\ csvKind = "bank" /\ cpc = "loop" /\ recIdx <= Len(records)
    /\ Len(records[recIdx]) = 3
    /\ ParseFloat(records[recIdx][2]).ok
    /\ ~ParseTime(LayoutDate, records[recIdx][3]).ok
    /\ ReturnError("date", recIdx)

\* the record passes the three checks of lines 115-128
BankRowParses ==
    /\ csvKind = "bank" /\ cpc = "loop" /\ recIdx <= Len(records)
    /\ Len(records[recIdx]) = 3
    /\ ParseFloat(records[recIdx][2]).ok
    /\ ParseTime(LayoutDate, records[recIdx][3]).ok

\* lines 131-135: the date of the row is outside the range, the row is skipped
BankOutOfRange ==
    /\ BankRowParses
    /\ hasTimeRange
    /\ LET date == ParseTime(LayoutDate, records[recIdx][3]).value
       IN date < rStart \/ date > rEnd
    /\ NextRecord
    /\ UNCHANGED <<transactions, statements>>

\* lines 137-142: the row is appended under the bank name of the file
BankAppend ==
    /\ BankRowParses
    /\ hasTimeRange =>
          LET date == ParseTime(LayoutDate, records[recIdx][3]).value
          IN ~(date < rStart \/ date > rEnd)
    /\ statements' = Append(statements,
          [BankName |-> BankNameOf(filename),
           UniqueID |-> records[recIdx][1],
           Amount |-> ParseFloat(records[recIdx][2]).value,
           Date |-> ParseTime(LayoutDate, records[recIdx][3]).value])
    /\ NextRecord
    /\ UNCHANGED transactions

\* line 144: the loop is over, the statements are returned
BankReturn ==
    /\ csvKind = "bank" /\ cpc = "loop" /\ recIdx > Len(records)
    /\ cpc' = "done"
    /\ UNCHANGED <<csvKind, records, skipHeader, rStart, rEnd, filename,
                   recIdx, transactions, statements, csvErr, csvFrame>>

NextCsv ==
    \/ SysReadAllError
    \/ SysNoRecords
    \/ SysLoopBegin
    \/ SysInvalidFormat
    \/ SysInvalidAmount
    \/ SysNegativeAmount
    \/ SysInvalidDate
    \/ SysOutOfRange
    \/ SysAppend
    \/ SysReturn
    \/ BankReadAllError
    \/ BankNoRecords
    \/ BankLoopBegin
    \/ BankInvalidFormat
    \/ BankInvalidAmount
    \/ BankInvalidDate
    \/ BankOutOfRange
    \/ BankAppend
    \/ BankReturn

SpecCsv == InitCsv /\ [][NextCsv]_vars

(***************************************************************************)
(* One call of readBankStatements: the function itself, one goroutine per  *)
(* file and the goroutine that closes the channel.                         *)
(***************************************************************************)
\* what a step of readBankStatements leaves alone
bankReadFrame ==
    <<reconcileVars, matchVars, rerunVars, csvVars, cliVars, sideVars>>

\* what ReadBankStatementsFromCSV returns for a file that reads well
StatementsOf(file) ==
    CASE file.outcome = "one" ->
            <<[BankName |-> BankNameOf(file.filename), UniqueID |-> "B1",
               Amount |-> 10000, Date |-> Day1]>>
      [] file.outcome = "two" ->
            <<[BankName |-> BankNameOf(file.filename), UniqueID |-> "B1",
               Amount |-> 10000, Date |-> Day1],
              [BankName |-> BankNameOf(file.filename), UniqueID |-> "B2",
               Amount |-> -2500, Date |-> Day2]>>
      [] OTHER -> <<>>

\* lines 214-226: the empty slice, the channel with room for one result per
\* file, the wait group
InitBankRead ==
    /\ bankFiles \in SeqsUpTo(BankFileUniverse, MaxFiles)
    /\ rpc = "spawn"
    /\ spawned = 0
    /\ gpc = [k \in 1..Len(bankFiles) |-> "none"]
    /\ wg = 0
    /\ resultCh = <<>>
    /\ chClosed = FALSE
    /\ closerPc = "none"
    /\ bankStatements = <<>>
    /\ readRet = <<>>
    /\ readErr = "none"
    /\ EngineIdle
    /\ SideIdle
    /\ RerunIdle
    /\ CsvIdle
    /\ CliIdle

\* lines 229-231, 259: wg.Add(1) and the goroutine of the next file starts
Spawn ==
    /\ rpc = "spawn"
    /\ spawned < Len(bankFiles)
    /\ spawned' = spawned + 1
    /\ wg' = wg + 1
    /\ gpc' = [gpc EXCEPT ![spawned + 1] = "open"]
    /\ UNCHANGED <<bankFiles, rpc, resultCh, chClosed, closerPc,
                   bankStatements, readRet, readErr, bankReadFrame>>

\* lines 262-265: after the loop the closing goroutine starts, and the
\* function goes on to collect
SpawnCloser ==
    /\ rpc = "spawn"
    /\ spawned = Len(bankFiles)
    /\ closerPc' = "wait"
    /\ rpc' = "collect"
    /\ UNCHANGED <<bankFiles, spawned, gpc, wg, resultCh, chClosed,
                   bankStatements, readRet, readErr, bankReadFrame>>

\* variant of Send: the channel has room for one result less
Send_SmallerBuffer(k, res) ==
    /\ Len(resultCh) < Len(bankFiles) - 1
    /\ resultCh' = Append(resultCh, res)
    /\ gpc' = [gpc EXCEPT ![k] = "sent"]
    /\ UNCHANGED <<bankFiles, rpc, spawned, wg, chClosed, closerPc,
                   bankStatements, readRet, readErr, bankReadFrame>>

\* a goroutine sends its one result; the buffer has room for it
Send(k, res) ==
    /\ Len(resultCh) < Len(bankFiles)
    /\ resultCh' = Append(resultCh, res)
    /\ gpc' = [gpc EXCEPT ![k] = "sent"]
    /\ UNCHANGED <<bankFiles, rpc, spawned, wg, chClosed, closerPc,
                   bankStatements, readRet, readErr, bankReadFrame>>

\* lines 234-238: os.Open fails, the error is sent
OpenFail(k) ==
    /\ gpc[k] = "open"
    /\ bankFiles[k].outcome = "openfail"
    /\ Send(k, [statements |-> <<>>, err |-> "open"])

\* lines 234, 239-247: the file is open and the reader made
OpenOk(k) ==
    /\ gpc[k] = "open"
    /\ bankFiles[k].outcome # "openfail"
    /\ gpc' = [gpc EXCEPT ![k] = "read"]
    /\ UNCHANGED <<bankFiles, rpc, spawned, wg, resultCh, chClosed, closerPc,
                   bankStatements, readRet, readErr, bankReadFrame>>

\* lines 250-254: the reader fails, the error is sent
ReadFail(k) ==
    /\ gpc[k] = "read"
    /\ bankFiles[k].outcome = "readfail"
    /\ Send(k, [statements |-> <<>>, err |-> "read"])

\* lines 250, 257: the statements of the file are sent
ReadOk(k) ==
    /\ gpc[k] = "read"
    /\ bankFiles[k].outcome # "readfail"
    /\ Send(k, [statements |-> StatementsOf(bankFiles[k]), err |-> "none"])

\* line 232: the deferred wg.Done() as the goroutine ends
GoroutineDone(k) ==
    /\ gpc[k] = "sent"
    /\ wg' = wg - 1
    /\ gpc' = [gpc EXCEPT ![k] = "done"]
    /\ UNCHANGED <<bankFiles, rpc, spawned, resultCh, chClosed, closerPc,
                   bankStatements, readRet, readErr, bankReadFrame>>

\* lines 263-264: wg.Wait() returns and the channel is closed
CloseChannel ==
    /\ closerPc = "wait"
    /\ wg = 0
    /\ chClosed' = TRUE
    /\ closerPc' = "done"
    /\ UNCHANGED <<bankFiles, rpc, spawned, gpc, wg, resultCh,
                   bankStatements, readRet, readErr, bankReadFrame>>

\* variant of CollectError: a result with an error is dropped
CollectError_Dropped ==
    /\ rpc = "collect"
    /\ resultCh # <<>>
    /\ Head(resultCh).err # "none"
    /\ resultCh' = Tail(resultCh)
    /\ UNCHANGED <<bankFiles, rpc, spawned, gpc, wg, chClosed, closerPc,
                   bankStatements, readRet, readErr, bankReadFrame>>

\* lines 268-271: a result with an error is received, nil and the error are
\* returned
CollectError ==
    /\ rpc = "collect"
    /\ resultCh # <<>>
    /\ Head(resultCh).err # "none"
    /\ resultCh' = Tail(resultCh)
    /\ readErr' = Head(resultCh).err
    /\ readRet' = <<>>
    /\ rpc' = "done"
    /\ UNCHANGED <<bankFiles, spawned, gpc, wg, chClosed, closerPc,
                   bankStatements, bankReadFrame>>

\* variant of CollectAppend: the statements received replace the slice
CollectAppend_Overwrite ==
    /\ rpc = "collect"
    /\ resultCh # <<>>
    /\ Head(resultCh).err = "none"
    /\ resultCh' = Tail(resultCh)
    /\ bankStatements' = Head(resultCh).statements
    /\ UNCHANGED <<bankFiles, rpc, spawned, gpc, wg, chClosed, closerPc,
                   readRet, readErr, bankReadFrame>>

\* lines 268, 272: a result without error is received and appended
CollectAppend ==
    /\ rpc = "collect"
    /\ resultCh # <<>>
    /\ Head(resultCh).err = "none"
    /\ resultCh' = Tail(resultCh)
    /\ bankStatements' = bankStatements \o Head(resultCh).statements
    /\ UNCHANGED <<bankFiles, rpc, spawned, gpc, wg, chClosed, closerPc,
                   readRet, readErr, bankReadFrame>>

\* lines 268, 275: the channel is closed and drained, the slice is returned
CollectReturn ==
    /\ rpc = "collect"
    /\ resultCh = <<>>
    /\ chClosed
    /\ readRet' = bankStatements
    /\ rpc' = "done"
    /\ UNCHANGED <<bankFiles, spawned, gpc, wg, resultCh, chClosed, closerPc,
                   bankStatements, readErr, bankReadFrame>>

NextBankRead ==
    \/ Spawn
    \/ SpawnCloser
    \/ \E k \in 1..Len(bankFiles) : OpenFail(k)
    \/ \E k \in 1..Len(bankFiles) : OpenOk(k)
    \/ \E k \in 1..Len(bankFiles) : ReadFail(k)
    \/ \E k \in 1..Len(bankFiles) : ReadOk(k)
    \/ \E k \in 1..Len(bankFiles) : GoroutineDone(k)
    \/ CloseChannel
    \/ CollectError
    \/ CollectAppend
    \/ CollectReturn

SpecBankRead == InitBankRead /\ [][NextBankRead]_vars

\* the Go scheduler runs a goroutine that can take a step
SpecBankReadFair ==
    InitBankRead /\ [][NextBankRead]_vars /\ WF_vars(NextBankRead)

(***************************************************************************)
(* One run of the command: rootCmd.RunE, one action per return and step.   *)
(***************************************************************************)
\* what a step of RunE leaves alone
cliFrame ==
    <<reconcileVars, matchVars, rerunVars, csvVars, bankReadVars, sideVars>>

InitCli ==
    /\ flags \in FlagsUniverse
    /\ env \in EnvUniverse
    /\ clipc = "flags"
    /\ stepsDone = {}
    /\ reconcileCalled = FALSE
    /\ reportPrinted = FALSE
    /\ jsonWritten = FALSE
    /\ cliErr = "none"
    /\ errorPrinted = FALSE
    /\ exitStatus = -1
    /\ EngineIdle
    /\ SideIdle
    /\ RerunIdle
    /\ CsvIdle
    /\ BankReadIdle

\* RunE returns an error
ReturnCliError(e) ==
    /\ cliErr' = e
    /\ clipc' = "done"
    /\ UNCHANGED <<flags, env, stepsDone, reconcileCalled, reportPrinted,
                   jsonWritten, errorPrinted, exitStatus, cliFrame>>

\* RunE goes on to its next step
GoTo(step) ==
    /\ clipc' = step
    /\ UNCHANGED <<flags, env, cliErr, errorPrinted, exitStatus, cliFrame>>

\* lines 29-31
SystemFileRequired ==
    /\ clipc = "flags"
    /\ flags.systemFile = ""
    /\ ReturnCliError("system transaction file path is required")

\* lines 32-34
BankFileRequired ==
    /\ clipc = "flags"
    /\ flags.systemFile # ""
    /\ flags.bankFile = ""
    /\ ReturnCliError("at least one bank statement file path is required")

\* lines 35-37
DatesRequired ==
    /\ clipc = "flags"
    /\ flags.systemFile # "" /\ flags.bankFile # ""
    /\ flags.startDate = "" \/ flags.endDate = ""
    /\ ReturnCliError("start and end dates are required")

\* lines 29-38: the four flags are there
FlagsGiven ==
    /\ clipc = "flags"
    /\ flags.systemFile # "" /\ flags.bankFile # ""
    /\ flags.startDate # "" /\ flags.endDate # ""
    /\ GoTo("dates")
    /\ UNCHANGED <<stepsDone, reconcileCalled, reportPrinted, jsonWritten>>

\* lines 41-44
InvalidStartDate ==
    /\ clipc = "dates"
    /\ ~ParseTime(LayoutDate, flags.startDate).ok
    /\ ReturnCliError("invalid start date format")

\* lines 45-48
InvalidEndDate ==
    /\ clipc = "dates"
    /\ ParseTime(LayoutDate, flags.startDate).ok
    /\ ~ParseTime(LayoutDate, flags.endDate).ok
    /\ ReturnCliError("invalid end date format")

\* lines 51-53
EndBeforeStart ==
    /\ clipc = "dates"
    /\ ParseTime(LayoutDate, flags.startDate).ok
    /\ ParseTime(LayoutDate, flags.endDate).ok
    /\ ParseTime(LayoutDate, flags.endDate).value
          < ParseTime(LayoutDate, flags.startDate).value
    /\ ReturnCliError("end date cannot be before start date")

\* lines 41-56: both dates parse and the end is not before the start
DatesValid ==
    /\ clipc = "dates"
    /\ ParseTime(LayoutDate, flags.startDate).ok
    /\ ParseTime(LayoutDate, flags.endDate).ok
    /\ ~(ParseTime(LayoutDate, flags.endDate).value
            < ParseTime(LayoutDate, flags.startDate).value)
    /\ GoTo("readSystem")
    /\ UNCHANGED <<stepsDone, reconcileCalled, reportPrinted, jsonWritten>>

\* lines 59-62: readSystemTransactions fails
ReadSystemFail ==
    /\ clipc = "readSystem"
    /\ ~env.readSystem
    /\ ReturnCliError("failed to read system transactions")

\* line 59: readSystemTransactions succeeds
ReadSystemOk ==
    /\ clipc = "readSystem"
    /\ env.readSystem
    /\ stepsDone' = stepsDone \cup {"readSystem"}
    /\ GoTo("processBank")
    /\ UNCHANGED <<reconcileCalled, reportPrinted, jsonWritten>>

\* lines 65-68: processBankFiles fails
ProcessBankFail ==
    /\ clipc = "processBank"
    /\ ~env.processBank
    /\ ReturnCliError("failed to process bank files")

\* line 65: processBankFiles succeeds
ProcessBankOk ==
    /\ clipc = "processBank"
    /\ env.processBank
    /\ stepsDone' = stepsDone \cup {"processBank"}
    /\ GoTo("readBank")
    /\ UNCHANGED <<reconcileCalled, reportPrinted, jsonWritten>>

\* variant of ReadBankFail: the error of readBankStatements is ignored
ReadBankFail_Ignored ==
    /\ clipc = "readBank"
    /\ ~env.readBank
    /\ GoTo("reconcile")
    /\ UNCHANGED <<stepsDone, reconcileCalled, reportPrinted, jsonWritten>>

\* lines 69-72: readBankStatements fails
ReadBankFail ==
    /\ clipc = "readBank"
    /\ ~env.readBank
    /\ ReturnCliError("failed to read bank statements")

\* line 69: readBankStatements succeeds
ReadBankOk ==
    /\ clipc = "readBank"
    /\ env.readBank
    /\ stepsDone' = stepsDone \cup {"readBank"}
    /\ GoTo("reconcile")
    /\ UNCHANGED <<reconcileCalled, reportPrinted, jsonWritten>>

\* lines 75-89: Reconcile is called; err is nil here, so line 83 is passed
CallReconcile ==
    /\ clipc = "reconcile"
    /\ reconcileCalled' = TRUE
    /\ GoTo("print")
    /\ UNCHANGED <<stepsDone, reportPrinted, jsonWritten>>

\* lines 94-97: the report is printed if --print is given
PrintReport ==
    /\ clipc = "print"
    /\ flags.print
    /\ reportPrinted' = TRUE
    /\ GoTo("output")
    /\ UNCHANGED <<stepsDone, reconcileCalled, jsonWritten>>

\* line 94: no --print
NoPrint ==
    /\ clipc = "print"
    /\ ~flags.print
    /\ GoTo("output")
    /\ UNCHANGED <<stepsDone, reconcileCalled, reportPrinted, jsonWritten>>

\* lines 100-105: GenerateJSON fails
GenerateJSONFail ==
    /\ clipc = "output"
    /\ flags.outputFile # ""
    /\ ~env.generateJSON
    /\ ReturnCliError("failed to generate JSON file")

\* lines 100-111: the JSON file is written and RunE returns nil
GenerateJSONOk ==
    /\ clipc = "output"
    /\ flags.outputFile # ""
    /\ env.generateJSON
    /\ jsonWritten' = TRUE
    /\ GoTo("done")
    /\ UNCHANGED <<stepsDone, reconcileCalled, reportPrinted>>

\* lines 100-111: no --output, RunE returns nil
NoOutput ==
    /\ clipc = "output"
    /\ flags.outputFile = ""
    /\ GoTo("done")
    /\ UNCHANGED <<stepsDone, reconcileCalled, reportPrinted, jsonWritten>>

\* the rest of main after rootCmd.Execute() has returned
mainFrame == <<flags, env, stepsDone, reconcileCalled, reportPrinted,
               jsonWritten, cliErr, cliFrame>>

\* lines 151-153: Execute returned an error, main prints it and goes on
MainPrintError ==
    /\ clipc = "done"
    /\ cliErr # "none"
    /\ errorPrinted' = TRUE
    /\ clipc' = "main"
    /\ UNCHANGED <<exitStatus, mainFrame>>

\* line 151: Execute returned nil
MainNoError ==
    /\ clipc = "done"
    /\ cliErr = "none"
    /\ clipc' = "main"
    /\ UNCHANGED <<errorPrinted, exitStatus, mainFrame>>

\* lines 155-158: the total time is printed and main returns, which ends the
\* process with status 0
MainReturn ==
    /\ clipc = "main"
    /\ exitStatus' = 0
    /\ clipc' = "exited"
    /\ UNCHANGED <<errorPrinted, mainFrame>>

NextCli ==
    \/ SystemFileRequired
    \/ BankFileRequired
    \/ DatesRequired
    \/ FlagsGiven
    \/ InvalidStartDate
    \/ InvalidEndDate
    \/ EndBeforeStart
    \/ DatesValid
    \/ ReadSystemFail
    \/ ReadSystemOk
    \/ ProcessBankFail
    \/ ProcessBankOk
    \/ ReadBankFail
    \/ ReadBankOk
    \/ CallReconcile
    \/ PrintReport
    \/ NoPrint
    \/ GenerateJSONFail
    \/ GenerateJSONOk
    \/ NoOutput
    \/ MainPrintError
    \/ MainNoError
    \/ MainReturn

SpecCli == InitCli /\ [][NextCli]_vars

(***************************************************************************)
(* String() called on one result, Calls times.  The text is the sequence   *)
(* of its lines; a line is its format with the values it prints.           *)
(***************************************************************************)
\* what a step of String() leaves alone
stringFrame ==
    <<reconcileVars, matchVars, rerunVars, csvVars, bankReadVars, cliVars,
      concVars>>

\* "%.2f" of an amount: the number of cents, nearest
FormatAmount(value) == round(value) \div 100

\* time.Time.Format("2006-01-02 15:04:05"): day, hour and minute
FormatDateTime(t) ==
    <<t \div MinutesPerDay, (t % MinutesPerDay) \div 60, t % 60>>

\* a line of the text: the format and what it prints into it
Line(format, id, type, number, time) ==
    [format |-> format, id |-> id, type |-> type, number |-> number,
     time |-> time]

RECURSIVE SystemLines(_)
SystemLines(txs) ==
    IF txs = <<>> THEN <<>>
    ELSE <<Line("- TrxID: %s, Amount: %.2f, Type: %s, Date: %s",
                Head(txs).TrxID, Head(txs).Type, FormatAmount(Head(txs).Amount),
                FormatDateTime(Head(txs).TransactionTime))>>
         \o SystemLines(Tail(txs))

RECURSIVE StatementLines(_)
StatementLines(stmts) ==
    IF stmts = <<>> THEN <<>>
    ELSE <<Line("- ID: %s, Amount: %.2f, Date: %s",
                Head(stmts).UniqueID, "", FormatAmount(Head(stmts).Amount),
                <<FormatDate(Head(stmts).Date)>>)>>
         \o StatementLines(Tail(stmts))

\* the results String() is called on
InitString ==
    /\ \E su \in SeqsUpTo(StringSystemUniverse, 1),
          bu \in SeqsUpTo(StringBankUniverse, MaxBank),
          m \in 0..1,
          d \in {0, 100} :
            result = [TransactionProcessed |-> m + Len(su),
                      TransactionMatched |-> m,
                      TransactionUnmatched |->
                         [TransactionUnmatched |-> Len(su) + Len(bu),
                          SystemUnmatched |-> su,
                          BankUnmatched |-> bu],
                      TotalDiscrepancies |-> m * d]
    /\ system = <<>>
    /\ bank = <<>>
    /\ pc = "idle"
    /\ i = 0
    /\ j = 0
    /\ matched = FALSE
    /\ matchedSystem = {}
    /\ matchedBank = {}
    /\ pairs = <<>>
    /\ sysTx = [TrxID |-> "T1", Amount |-> 0, Type |-> "CREDIT",
                TransactionTime |-> Day1]
    /\ bankTx = [BankName |-> "A", UniqueID |-> "B1", Amount |-> 0,
                 Date |-> Day1]
    /\ mpc = "idle"
    /\ isMatchResult = FALSE
    /\ spc = "call"
    /\ rendered = <<>>
    /\ ConcIdle
    /\ RerunIdle
    /\ CsvIdle
    /\ BankReadIdle
    /\ CliIdle

\* lines 68-71: the map from a bank name to its statements, in input order
bankGroups ==
    [bankName \in {result.TransactionUnmatched.BankUnmatched[n].BankName :
                     n \in 1..Len(result.TransactionUnmatched.BankUnmatched)}
       |-> SelectSeq(result.TransactionUnmatched.BankUnmatched,
                     LAMBDA stmt : stmt.BankName = bankName)]

\* the keys of bankGroups the range has not yielded yet
NotYetWritten ==
    {bankName \in DOMAIN bankGroups :
        \A n \in 1..Len(rendered[Len(rendered)]) :
            ~(/\ rendered[Len(rendered)][n].format = "Bank: %s"
              /\ rendered[Len(rendered)][n].id = bankName)}

\* the lines are written to the strings.Builder of this call
WriteLines(lines) ==
    rendered' = [rendered EXCEPT ![Len(rendered)] = @ \o lines]

\* lines 41-53: the header and the three counts
StringSummary ==
    /\ spc = "call"
    /\ rendered' = Append(rendered,
          << Line("Reconciliation Summary:", "", "", 0, <<>>),
             Line("Total transactions processed: %d", "", "",
                  result.TransactionProcessed, <<>>),
             Line("Total matched transactions: %d", "", "",
                  result.TransactionMatched, <<>>),
             Line("Total unmatched transactions: %d", "", "",
                  result.TransactionUnmatched.TransactionUnmatched, <<>>) >>)
    /\ spc' = "system"
    /\ UNCHANGED stringFrame

\* lines 56-65: the unmatched system transactions, if there are any
StringSystemUnmatched ==
    /\ spc = "system"
    /\ IF Len(result.TransactionUnmatched.SystemUnmatched) > 0
       THEN WriteLines(
              <<Line("System transactions missing from bank statements:",
                     "", "", 0, <<>>)>>
              \o SystemLines(result.TransactionUnmatched.SystemUnmatched))
       ELSE UNCHANGED rendered
    /\ spc' = "bank"
    /\ UNCHANGED stringFrame

\* line 67 false: there is no unmatched bank statement
StringNoBankUnmatched ==
    /\ spc = "bank"
    /\ Len(result.TransactionUnmatched.BankUnmatched) = 0
    /\ spc' = "total"
    /\ UNCHANGED <<rendered, stringFrame>>

\* lines 67-71: the heading, and the statements are grouped by bank name
StringGroup ==
    /\ spc = "bank"
    /\ Len(result.TransactionUnmatched.BankUnmatched) > 0
    /\ WriteLines(
         <<Line("Bank statements missing from system transactions:",
                "", "", 0, <<>>)>>)
    /\ spc' = "groups"
    /\ UNCHANGED stringFrame

\* lines 73-82: the range over the map yields one of the remaining keys, in
\* an order Go leaves unspecified; the group is written in its own order
StringWriteGroup ==
    /\ spc = "groups"
    /\ \E bankName \in NotYetWritten :
          WriteLines(<<Line("Bank: %s", bankName, "", 0, <<>>)>>
                     \o StatementLines(bankGroups[bankName]))
    /\ UNCHANGED <<spc, stringFrame>>

\* line 73: the range over the map is exhausted
StringGroupsEnd ==
    /\ spc = "groups"
    /\ NotYetWritten = {}
    /\ spc' = "total"
    /\ UNCHANGED <<rendered, stringFrame>>

\* lines 84-87: the total of the discrepancies, and the text is returned
StringTotal ==
    /\ spc = "total"
    /\ WriteLines(<<Line("Total amount discrepancies: %.2f", "", "",
                         FormatAmount(result.TotalDiscrepancies), <<>>)>>)
    /\ spc' = "returned"
    /\ UNCHANGED stringFrame

\* the caller calls String() on the same result again
StringAgain ==
    /\ spc = "returned"
    /\ Len(rendered) < Calls
    /\ spc' = "call"
    /\ UNCHANGED <<rendered, stringFrame>>

NextString ==
    \/ StringSummary
    \/ StringSystemUnmatched
    \/ StringNoBankUnmatched
    \/ StringGroup
    \/ StringWriteGroup
    \/ StringGroupsEnd
    \/ StringTotal
    \/ StringAgain

SpecString == InitString /\ [][NextString]_vars

(***************************************************************************)
(* Vocabulary of the properties, stated without the operators above.       *)
(***************************************************************************)
Done == pc = "done"

Returned == mpc = "returned"

Min(S) == CHOOSE x \in S : \A y \in S : x <= y

\* the calendar day d with d 00:00 <= t < (d+1) 00:00
CalendarDay(t) ==
    CHOOSE d \in 0..3 : d * MinutesPerDay <= t /\ t < (d + 1) * MinutesPerDay

SameDay(s, b) == CalendarDay(s.TransactionTime) = CalendarDay(b.Date)

Magnitude(a) == CHOOSE m \in {a, 0 - a} : m >= 0

\* | system amount - |bank amount| |, in 1/10000
AmountDiff(s, b) == Magnitude(s.Amount - Magnitude(b.Amount))

\* AmountDiff rounded to 2 decimal places (a whole number of cents, in
\* 1/10000): the cent c with c - 0.005 <= diff < c + 0.005
RoundedDiff(s, b) ==
    100 * (CHOOSE c \in 0..400 :
              100 * c - 50 <= AmountDiff(s, b) /\ AmountDiff(s, b) < 100 * c + 50)

SignCompatible(s, b) ==
    /\ ~(s.Type = "DEBIT" /\ b.Amount > 0)
    /\ ~(s.Type = "CREDIT" /\ b.Amount < 0)

PairedSystem == {pairs[p][1] : p \in 1..Len(pairs)}

PairedBank == {pairs[p][2] : p \in 1..Len(pairs)}

\* the elements of seq at the positions 1..n that are in S, in order
RECURSIVE Pick(_, _, _)
Pick(seq, S, n) ==
    IF n = 0 THEN <<>>
    ELSE IF n \in S THEN Append(Pick(seq, S, n - 1), seq[n])
    ELSE Pick(seq, S, n - 1)

RECURSIVE SumRoundedDiff(_)
SumRoundedDiff(n) ==
    IF n = 0 THEN 0
    ELSE SumRoundedDiff(n - 1)
         + RoundedDiff(system[pairs[n][1]], bank[pairs[n][2]])

\* bank statement ids are unique within each source (BankName)
UniqueWithinSource ==
    \A p, q \in 1..Len(bank) :
        (p # q /\ bank[p].BankName = bank[q].BankName)
            => bank[p].UniqueID # bank[q].UniqueID

\* system transaction ids are unique
UniqueSystemIds ==
    \A p, q \in 1..Len(system) : p # q => system[p].TrxID # system[q].TrxID

\* the inputs respect the data model's uniqueness of ids
UniqueIds == UniqueSystemIds /\ UniqueWithinSource

(***************************************************************************)
(* Properties of Reconcile (specification Spec).                           *)
(***************************************************************************)
\* C1: in the result of Reconcile the unmatched count equals
\* len(SystemUnmatched) + len(BankUnmatched).
C1_UnmatchedCountIsSum ==
    Done =>
        result.TransactionUnmatched.TransactionUnmatched
            = Len(result.TransactionUnmatched.SystemUnmatched)
              + Len(result.TransactionUnmatched.BankUnmatched)

C1_Witness ==
    /\ Done
    /\ Len(result.TransactionUnmatched.SystemUnmatched) >= 1
    /\ Len(result.TransactionUnmatched.BankUnmatched) >= 1
    /\ result.TransactionMatched >= 1

\* C2: no bank record is paired with two system transactions, no system
\* transaction with two bank records, matched_count counts the pairs, and
\* unmatched_system holds exactly the system transactions that were not
\* paired, so none that was counted as matched.
C2_NoDoubleMatching ==
    /\ \A p, q \in 1..Len(pairs) :
          p # q => (pairs[p][1] # pairs[q][1] /\ pairs[p][2] # pairs[q][2])
    /\ result.TransactionMatched = Len(pairs)
    /\ Done =>
          result.TransactionUnmatched.SystemUnmatched
              = Pick(system, (1..Len(system)) \ PairedSystem, Len(system))

\* two pairs were made although the second system transaction also fits the
\* bank record taken by the first
C2_Witness ==
    /\ Done
    /\ Len(pairs) = 2
    /\ isMatch(system[pairs[2][1]], bank[pairs[1][2]])

\* C3: first-fit by input order: when the scan for system transaction i
\* ends, i is paired with the earliest bank record that no earlier system
\* transaction was paired with and that satisfies the predicate, the scan
\* stopped at that record, and i is unpaired only if there is no such record
\* (stated for the inputs whose system ids are unique and whose bank ids
\* are unique within each source).
C3_FirstFit ==
    (pc = "after" /\ UniqueIds) =>
        LET taken == {pairs[p][2] : p \in {q \in 1..Len(pairs) : pairs[q][1] < i}}
            cand == {c \in 1..Len(bank) :
                        c \notin taken /\ isMatch(system[i], bank[c])}
        IN  IF cand = {} THEN ~matched
            ELSE /\ matched
                 /\ pairs[Len(pairs)] = <<i, Min(cand)>>
                 /\ j = Min(cand)

\* C4: every bank record that was not paired is in unmatched_bank, and
\* matched_count + len(unmatched_bank) = len(bank), whenever the ids are
\* unique within each source (and the system ids are unique).
C4_UnpairedBankReported ==
    (Done /\ UniqueIds) =>
        /\ result.TransactionUnmatched.BankUnmatched
              = Pick(bank, (1..Len(bank)) \ PairedBank, Len(bank))
        /\ result.TransactionMatched
              + Len(result.TransactionUnmatched.BankUnmatched) = Len(bank)

\* C9: matched_count <= min(processed_count, len(bank)).
C9_MatchedAtMostMin ==
    Done =>
        /\ result.TransactionMatched <= result.TransactionProcessed
        /\ result.TransactionMatched <= Len(bank)

\* every bank record is paired and a system transaction that fits one of
\* them is left over
C9_Witness ==
    /\ Done
    /\ Len(bank) >= 1
    /\ result.TransactionMatched = Len(bank)
    /\ Len(system) > Len(bank)
    /\ \E s \in (1..Len(system)) \ PairedSystem :
          \E b \in 1..Len(bank) : isMatch(system[s], bank[b])

\* C10: discrepancy_total is the sum over the matched pairs of
\* | system amount - |bank amount| | rounded to 2 decimals, and 0 when no
\* pair matched.
C10_DiscrepancyOverPairs ==
    Done =>
        /\ result.TotalDiscrepancies = SumRoundedDiff(Len(pairs))
        /\ pairs = <<>> => result.TotalDiscrepancies = 0

\* one pair 0.014 apart, counted as 0.01, and an unmatched record on each side
C10_Witness ==
    /\ Done
    /\ Len(pairs) = 1
    /\ AmountDiff(system[pairs[1][1]], bank[pairs[1][2]]) = 140
    /\ result.TotalDiscrepancies = 100
    /\ Len(result.TransactionUnmatched.SystemUnmatched) = 1
    /\ Len(result.TransactionUnmatched.BankUnmatched) = 1

(***************************************************************************)
(* Properties of isMatch (specification SpecIsMatch).                      *)
(***************************************************************************)
\* C5: sign rule: for a DEBIT or CREDIT transaction and a bank record of
\* the same day within tolerance, isMatch is false exactly when DEBIT meets
\* a bank amount > 0 or CREDIT meets a bank amount < 0.
C5_SignRule ==
    (/\ Returned
     /\ sysTx.Type \in {"DEBIT", "CREDIT"}
     /\ SameDay(sysTx, bankTx)
     /\ RoundedDiff(sysTx, bankTx) <= 100)
        => (isMatchResult
              <=> ~(\/ (sysTx.Type = "DEBIT" /\ bankTx.Amount > 0)
                    \/ (sysTx.Type = "CREDIT" /\ bankTx.Amount < 0)))

\* a bank amount of zero matches a DEBIT
C5_Witness ==
    /\ Returned
    /\ sysTx.Type = "DEBIT"
    /\ sysTx.Amount = 0
    /\ bankTx.Amount = 0
    /\ SameDay(sysTx, bankTx)
    /\ isMatchResult

\* C6: amount rule: for a sign-compatible pair of the same day, isMatch is
\* true exactly when | system amount - |bank amount| |, rounded to 2
\* decimals, is <= 0.01.
C6_AmountRule ==
    (Returned /\ SignCompatible(sysTx, bankTx) /\ SameDay(sysTx, bankTx))
        => (isMatchResult <=> RoundedDiff(sysTx, bankTx) <= 100)

\* a raw difference of 0.0149 is above 0.01 and still matches
C6_Witness ==
    /\ Returned
    /\ SignCompatible(sysTx, bankTx)
    /\ SameDay(sysTx, bankTx)
    /\ AmountDiff(sysTx, bankTx) = 149
    /\ isMatchResult

\* C7 as stated: a sign-compatible same-day pair differing by exactly 0.01
\* matches and one differing by 0.011 does not.
C7_ToleranceBoundaryAsStated ==
    (Returned /\ SignCompatible(sysTx, bankTx) /\ SameDay(sysTx, bankTx))
        => /\ AmountDiff(sysTx, bankTx) = 100 => isMatchResult
           /\ AmountDiff(sysTx, bankTx) = 110 => ~isMatchResult

\* C7 amended: a pair differing by exactly 0.01 matches, a pair differing
\* by 0.011 matches too (the difference is rounded to 0.01 before the
\* comparison), and a pair differing by 0.02 does not match.
C7_ToleranceBoundary ==
    (Returned /\ SignCompatible(sysTx, bankTx) /\ SameDay(sysTx, bankTx))
        => /\ AmountDiff(sysTx, bankTx) = 100 => isMatchResult
           /\ AmountDiff(sysTx, bankTx) = 110 => isMatchResult
           /\ AmountDiff(sysTx, bankTx) = 200 => ~isMatchResult

C7_Witness ==
    /\ Returned
    /\ SignCompatible(sysTx, bankTx)
    /\ SameDay(sysTx, bankTx)
    /\ AmountDiff(sysTx, bankTx) = 110
    /\ isMatchResult

\* C8: date rule: for a sign-compatible pair within tolerance, isMatch is
\* true exactly when the calendar day of the system timestamp is the bank
\* record's day, whatever the time of day.
C8_DateRule ==
    (/\ Returned
     /\ SignCompatible(sysTx, bankTx)
     /\ RoundedDiff(sysTx, bankTx) <= 100)
        => (isMatchResult <=> SameDay(sysTx, bankTx))

\* a system transaction at 23:59 matches a bank record of that day
C8_Witness ==
    /\ Returned
    /\ sysTx.TransactionTime = Day1 + 1439
    /\ bankTx.Date = Day1
    /\ isMatchResult

(***************************************************************************)
(* Further properties of Reconcile (specification Spec).                   *)
(***************************************************************************)
\* the bank records that no system transaction before s was paired with
FreeBefore(s) ==
    (1..Len(bank)) \ {pairs[p][2] : p \in {q \in 1..Len(pairs) : pairs[q][1] < s}}

\* no bank record that was still unpaired when s was processed satisfies
\* the predicate with s
NoCandidate(s) == \A c \in FreeBefore(s) : ~isMatch(system[s], bank[c])

\* C11: every system transaction is counted as matched or appended to
\* unmatched_system, never both; unmatched_system holds exactly the system
\* transactions for which no unpaired bank record satisfied the predicate
\* when they were processed; matched_count + len(unmatched_system) =
\* processed_count (stated for inputs whose system ids are unique and whose
\* bank ids are unique within each source).
C11_UnmatchedSystemExact ==
    (Done /\ UniqueIds) =>
        /\ result.TransactionMatched
              + Len(result.TransactionUnmatched.SystemUnmatched)
                 = result.TransactionProcessed
        /\ result.TransactionUnmatched.SystemUnmatched
              = Pick(system, {s \in 1..Len(system) : NoCandidate(s)}, Len(system))

\* C12: processed_count is the number of system transactions.
C12_ProcessedIsSystemCount ==
    Done => result.TransactionProcessed = Len(system)

\* more bank records than system transactions, one of them matched
C12_Witness ==
    /\ Done
    /\ Len(system) = 1
    /\ Len(bank) = 2
    /\ result.TransactionMatched = 1
    /\ result.TransactionProcessed = 1

\* C13: unmatched_system and unmatched_bank are subsequences of the inputs,
\* in input order and with every record unchanged (BankName included); the
\* records of unmatched_bank are records that were not paired.
C13_UnmatchedAreSubsequences ==
    Done =>
        /\ \E S \in SUBSET (1..Len(system)) :
              result.TransactionUnmatched.SystemUnmatched
                  = Pick(system, S, Len(system))
        /\ \E B \in SUBSET ((1..Len(bank)) \ PairedBank) :
              result.TransactionUnmatched.BankUnmatched
                  = Pick(bank, B, Len(bank))

\* two unmatched bank records of different banks and an unmatched system
\* transaction
C13_Witness ==
    /\ Done
    /\ Len(result.TransactionUnmatched.SystemUnmatched) >= 1
    /\ Len(result.TransactionUnmatched.BankUnmatched) = 2
    /\ result.TransactionUnmatched.BankUnmatched[1].BankName
          # result.TransactionUnmatched.BankUnmatched[2].BankName

(***************************************************************************)
(* Two calls of Reconcile on the same inputs (specification SpecRerun).    *)
(***************************************************************************)
\* C14: Reconcile is deterministic: the second call on the same system and
\* bank sequences returns a result equal to the first (counts, discrepancy
\* total and both unmatched lists).
C14_SameInputSameResult ==
    (Done /\ run = 2) => result = firstResult

\* the second call has returned a result with a pair and unmatched records
C14_Witness ==
    /\ Done
    /\ run = 2
    /\ result.TransactionMatched >= 1
    /\ Len(result.TransactionUnmatched.SystemUnmatched) >= 1
    /\ Len(result.TransactionUnmatched.BankUnmatched) >= 1

(***************************************************************************)
(* Reconcile on edge inputs (specification SpecEdge).                      *)
(***************************************************************************)
\* C15: Reconcile terminates and returns a result for every pair of finite
\* input sequences, the empty ones and those with repeated ids, zero amounts
\* and negative system amounts included; it has no error return.
C15_Terminates == <>Done

\* Reconcile has returned on two system records with the same id, one of
\* them with a negative amount, and a bank record with a zero amount
C15_Witness ==
    /\ Done
    /\ Len(system) = 2
    /\ system[1].TrxID = system[2].TrxID
    /\ system[1].Amount < 0
    /\ Len(bank) >= 1
    /\ bank[1].Amount = 0

\* the input of the scenario: T1 100.00 and T2 200.00, both CREDIT, against
\* B1 100.00 and B2 200.0021, all on the same day
MixedMatchesInput ==
    /\ Len(system) = 2
    /\ system[1].TrxID = "T1" /\ system[1].Amount = 1000000
    /\ system[2].TrxID = "T2" /\ system[2].Amount = 2000000
    /\ Len(bank) = 2
    /\ bank[1].UniqueID = "B1" /\ bank[1].Amount = 1000000
    /\ bank[2].UniqueID = "B2" /\ bank[2].Amount = 2000021

\* C16: on system = [T1 100.00 CREDIT, T2 200.00 CREDIT] and bank =
\* [B1 100.00, B2 200.0021] of one day, Reconcile returns 2 matched, nothing
\* unmatched, and a discrepancy total within 0.01 of 0.0021.
C16_MixedMatchesScenario ==
    (Done /\ MixedMatchesInput) =>
        /\ result.TransactionMatched = 2
        /\ result.TransactionUnmatched.TransactionUnmatched = 0
        /\ Len(result.TransactionUnmatched.SystemUnmatched) = 0
        /\ Len(result.TransactionUnmatched.BankUnmatched) = 0
        /\ abs(result.TotalDiscrepancies - 21) <= amountTolerance

\* Reconcile has returned on the input of the scenario
C16_Witness == Done /\ MixedMatchesInput /\ Len(pairs) = 2

(***************************************************************************)
(* The CSV readers (specification SpecCsv).                                *)
(***************************************************************************)
CsvDone == cpc = "done"

\* what the reader returns besides the error
Output == IF csvKind = "system" THEN transactions ELSE statements

ExpectedFields == IF csvKind = "system" THEN 4 ELSE 3

\* the positions of the data rows: every record, but the first if it is
\* skipped as the header
DataRows == {k \in 1..Len(records) : skipHeader => k > 1}

AmountOf(rec) == ParseFloat(rec[2])

DateOf(rec) ==
    IF csvKind = "system" THEN ParseTime(LayoutDateTime, rec[4])
                          ELSE ParseTime(LayoutDate, rec[3])

\* a row with the right number of fields, an amount and a date that parse,
\* and, in a system file, an amount that is not negative
WellFormedRow(rec) ==
    /\ Len(rec) = ExpectedFields
    /\ AmountOf(rec).ok
    /\ csvKind = "system" => AmountOf(rec).value >= 0
    /\ DateOf(rec).ok

MalformedRows == {k \in DataRows : ~WellFormedRow(records[k])}

\* the records with another number of fields than the first record
OddRows == {k \in 1..Len(records) : Len(records[k]) # Len(records[1])}

\* no malformed row, and a skipped header with the columns of the rows
WellFormedFile ==
    /\ MalformedRows = {}
    /\ (skipHeader /\ Len(records) >= 1) => Len(records[1]) = ExpectedFields

\* the calendar date of a well-formed row, as the instant of its midnight
RowDay(rec) == CalendarDay(DateOf(rec).value) * MinutesPerDay

InRange(rec) == rStart <= RowDay(rec) /\ RowDay(rec) <= rEnd

RangeSet == rStart # ZeroTime /\ rEnd # ZeroTime

\* the value a well-formed row stands for
RowValue(rec) ==
    IF csvKind = "system"
    THEN [TrxID |-> rec[1], Amount |-> AmountOf(rec).value, Type |-> rec[3],
          TransactionTime |-> DateOf(rec).value]
    ELSE [BankName |-> BankNameOf(filename), UniqueID |-> rec[1],
          Amount |-> AmountOf(rec).value, Date |-> DateOf(rec).value]

RowValues ==
    [k \in 1..Len(records) |->
        IF WellFormedRow(records[k]) THEN RowValue(records[k]) ELSE <<>>]

RowsInRange ==
    {k \in DataRows : WellFormedRow(records[k]) /\ InRange(records[k])}

\* C17: with a time range set, a reader that returns without error returns,
\* in file order, exactly the well-formed rows whose calendar date d has
\* start <= d <= end, both ends included and the time of day of a system row
\* ignored; a file of well-formed rows is read without error, and with an end
\* before the start it gives an empty list and no error.
C17_RangeFilter ==
    (CsvDone /\ RangeSet) =>
        /\ csvErr = NoError =>
              Output = Pick(RowValues, RowsInRange, Len(records))
        /\ WellFormedFile => csvErr = NoError
        /\ (WellFormedFile /\ rEnd < rStart) => Output = <<>>

\* three system rows read under the range of two days: the second row, late
\* on the last day, is returned and the third, a day later, is not
C17_Witness ==
    /\ CsvDone
    /\ csvKind = "system"
    /\ rStart = Day1 /\ rEnd = Day2
    /\ Len(records) = 3
    /\ csvErr = NoError
    /\ Len(transactions) = 2
    /\ transactions[2].TransactionTime = Day2 + 1439

\* the file starts with the header line and the reader skips it
HeaderSkipped ==
    /\ skipHeader
    /\ Len(records) >= 1
    /\ records[1][2] = "amount"

\* C18 as stated: a file with a malformed data row gives an error that names
\* the row of the first malformed row (the header being row 1), and no
\* records.
C18_FirstMalformedRowNamed ==
    (CsvDone /\ HeaderSkipped /\ MalformedRows # {}) =>
        /\ csvErr.kind # "none"
        /\ csvErr.row = Min(MalformedRows)
        /\ transactions = <<>>
        /\ statements = <<>>

\* C18: a file with a malformed data row gives an error and no records,
\* whatever came before the row and whatever the range; the error names the
\* first record with another number of fields than the first record of the
\* file if there is one, and the first malformed row otherwise; a negative
\* amount is no error in a bank file.
C18_ErrorNamesRow ==
    CsvDone =>
        /\ MalformedRows # {} =>
              /\ csvErr.kind # "none"
              /\ csvErr.row = (IF OddRows # {} THEN Min(OddRows)
                                               ELSE Min(MalformedRows))
              /\ transactions = <<>>
              /\ statements = <<>>
        /\ csvKind = "bank" =>
              /\ csvErr.kind # "negative"
              /\ WellFormedFile => csvErr = NoError

\* after a valid row, the error names row 3 with its fifth field although
\* row 2 is the first malformed row
C18_Witness ==
    /\ CsvDone
    /\ csvKind = "system"
    /\ skipHeader
    /\ Len(records) = 3
    /\ Min(MalformedRows \cup {3}) = 2
    /\ csvErr = [kind |-> "read", row |-> 3]

(***************************************************************************)
(* readBankStatements (specification SpecBankRead).                        *)
(***************************************************************************)
BankReadDone == rpc = "done"

\* the files that fail to open or to parse
FailingFiles ==
    {k \in 1..Len(bankFiles) :
        bankFiles[k].outcome \in {"openfail", "readfail"}}

\* C19: whenever at least one file fails to open or to parse,
\* readBankStatements returns an error and no statements, for every number
\* of files and every order in which the readers complete, also when the
\* statements of other files were received first.
C19_AnyFailureAborts ==
    (BankReadDone /\ FailingFiles # {}) =>
        /\ readErr # "none"
        /\ readRet = <<>>

\* the error is returned after the statements of another file were appended
C19_Witness ==
    /\ BankReadDone
    /\ Len(bankFiles) = 2
    /\ readErr = "read"
    /\ Len(bankStatements) = 1
    /\ readRet = <<>>

(***************************************************************************)
(* The command (specification SpecCli).                                    *)
(***************************************************************************)
\* RunE has returned
CliDone == clipc \in {"done", "main", "exited"}

\* the process has ended
CliExited == clipc = "exited"

\* the flags pass the validation: all four given, both dates of the form
\* YYYY-MM-DD, the end not before the start
GoodDates == {"2024-01-01", "2024-01-02"}

FlagsAccepted ==
    /\ flags.systemFile # ""
    /\ flags.bankFile # ""
    /\ flags.startDate \in GoodDates
    /\ flags.endDate \in GoodDates
    /\ ~(flags.startDate = "2024-01-02" /\ flags.endDate = "2024-01-01")

IngestionSucceeds == env.readSystem /\ env.processBank /\ env.readBank

\* C20: Reconcile is called only after the system file was read, the bank
\* files were resolved and every bank file was read, all with success; if
\* one of these steps or the validation of the flags and dates fails,
\* Reconcile is never called, no report is printed, no JSON file is written.
C20_ReconcileAfterIngestion ==
    /\ reconcileCalled =>
          /\ FlagsAccepted
          /\ stepsDone = {"readSystem", "processBank", "readBank"}
    /\ ~(FlagsAccepted /\ IngestionSucceeds) =>
          /\ ~reconcileCalled
          /\ ~reportPrinted
          /\ ~jsonWritten
          /\ CliDone => cliErr # "none"

\* a run with --print and --output ends on the failure of a bank file
C20_Witness ==
    /\ CliDone
    /\ FlagsAccepted
    /\ flags.print
    /\ flags.outputFile # ""
    /\ stepsDone = {"readSystem", "processBank"}
    /\ cliErr = "failed to read bank statements"
    /\ ~reconcileCalled

\* C21: on a failure of the validation or of the ingestion (a flag missing
\* or unparsable, the end date before the start date, a file missing, a row
\* malformed) the command prints an error message and the process ends with
\* a non-zero exit status.
C21_FailureExitsNonZero ==
    (CliExited /\ ~(FlagsAccepted /\ IngestionSucceeds)) =>
        /\ errorPrinted
        /\ exitStatus # 0

(***************************************************************************)
(* Reconcile on merged sources (specification SpecMerge).                  *)
(***************************************************************************)
\* the three rules of a pair, stated on the records
RulesHold(s, b) ==
    /\ SignCompatible(s, b)
    /\ RoundedDiff(s, b) <= amountTolerance
    /\ SameDay(s, b)

\* C22: in whatever order whole sources are concatenated into the bank
\* sequence, the result of Reconcile is a valid pairing: every pair keeps the
\* sign, amount and date rules, and no system transaction and no bank record
\* is in more than one pair.
C22_ValidPairingAnyOrder ==
    Done =>
        /\ \A p \in 1..Len(pairs) :
              RulesHold(system[pairs[p][1]], bank[pairs[p][2]])
        /\ \A p, q \in 1..Len(pairs) :
              p # q => (pairs[p][1] # pairs[q][1] /\ pairs[p][2] # pairs[q][2])
        /\ result.TransactionMatched = Len(pairs)

\* the second run, on the sources merged the other way round, has made two
\* pairs
C22_Witness ==
    /\ Done
    /\ run = 2
    /\ Len(bank) = 2
    /\ bank[1].BankName = "B" /\ bank[2].BankName = "A"
    /\ Len(pairs) = 2

\* no id is used twice in the bank sequence, not even by two sources
DistinctBankIds ==
    \A p, q \in 1..Len(bank) : p # q => bank[p].UniqueID # bank[q].UniqueID

\* the three numbers of the summary of a result
Summary(r) ==
    <<r.TransactionMatched, r.TransactionUnmatched.TransactionUnmatched,
      r.TotalDiscrepancies>>

\* C26 as stated: for fixed sources and a fixed system sequence the summary
\* (matched count, unmatched count, discrepancy total) is the same for every
\* order in which the sources are merged.
C26_SameSummaryAnyOrder ==
    (Done /\ run = 2 /\ UniqueSystemIds /\ DistinctBankIds)
        => Summary(result) = Summary(firstResult)

\* C26: for fixed sources and a fixed system sequence the processed count is
\* the same for every merge order, and with ids that are unique over the
\* whole bank sequence the unmatched count of each order is the number of system and bank records less twice its matched
\* count; the matched count, the unmatched count and the discrepancy total
\* may differ from one merge order to another.
C26_SummaryUnderMerge ==
    (Done /\ run = 2) =>
        /\ result.TransactionProcessed = firstResult.TransactionProcessed
        /\ DistinctBankIds =>
              \A r \in {result, firstResult} :
                  r.TransactionUnmatched.TransactionUnmatched
                      = Len(system) + Len(bank) - 2 * r.TransactionMatched

\* with unique ids the second merge order has another matched count than the
\* first
C26_Witness ==
    /\ Done
    /\ run = 2
    /\ UniqueSystemIds
    /\ DistinctBankIds
    /\ result.TransactionMatched # firstResult.TransactionMatched

(***************************************************************************)
(* The result of Reconcile as a function of its arguments.                 *)
(***************************************************************************)
\* the first record of bnk whose id is not in used and that keeps the three
\* rules with s; 0 if there is none
FirstFit(s, bnk, used) ==
    LET fits == {c \in 1..Len(bnk) :
                    bnk[c].UniqueID \notin used /\ RulesHold(s, bnk[c])}
    IN IF fits = {} THEN 0 ELSE Min(fits)

\* what the first n system transactions come to: the ids taken, the number
\* of pairs, the sum of their rounded differences, the transactions left over
RECURSIVE Alone(_, _, _)
Alone(sys, bnk, n) ==
    IF n = 0
    THEN [used |-> {}, matched |-> 0, total |-> 0, left |-> <<>>]
    ELSE LET before == Alone(sys, bnk, n - 1)
             fit == FirstFit(sys[n], bnk, before.used)
         IN IF fit = 0
            THEN [before EXCEPT !.left = Append(@, sys[n])]
            ELSE [before EXCEPT
                    !.used = @ \cup {bnk[fit].UniqueID},
                    !.matched = @ + 1,
                    !.total = @ + RoundedDiff(sys[n], bnk[fit])]

\* the result of one invocation of Reconcile(sys, bnk) on its own
RunAlone(sys, bnk) ==
    LET all == Alone(sys, bnk, Len(sys))
        free == SelectSeq(bnk, LAMBDA b : b.UniqueID \notin all.used)
    IN [TransactionProcessed |-> Len(sys),
        TransactionMatched |-> all.matched,
        TransactionUnmatched |->
           [TransactionUnmatched |-> Len(all.left) + Len(free),
            SystemUnmatched |-> all.left,
            BankUnmatched |-> free],
        TotalDiscrepancies |-> all.total]

(***************************************************************************)
(* Two concurrent invocations (specification SpecConcurrent).              *)
(***************************************************************************)
\* C23: two invocations of Reconcile that run concurrently on disjoint
\* inputs, interleaved in any way, each return the result they return when
\* run alone: the matched-id sets and the result are local to an invocation.
C23_ConcurrentAsAlone ==
    /\ Done => result = RunAlone(system, bank)
    /\ other.pc = "done" => other.result = RunAlone(other.system, other.bank)

\* the second invocation has returned with a pair on id B1 while the first
\* is halted in its scan with the id B1 in its own set
C23_Witness ==
    /\ running = 2
    /\ Done
    /\ result.TransactionMatched = 1
    /\ other.pc = "after"
    /\ other.i = 1
    /\ Len(other.system) = 2
    /\ other.matchedBank = {"B1"}

(***************************************************************************)
(* The statements readBankStatements returns (specification SpecBankRead). *)
(***************************************************************************)
\* the orders in which the files can be taken
FileOrders ==
    {o \in [1..Len(bankFiles) -> 1..Len(bankFiles)] :
        \A a, b \in 1..Len(bankFiles) : a # b => o[a] # o[b]}

\* the statements of the first n files of the order o, one file after another
RECURSIVE Blocks(_, _)
Blocks(o, n) ==
    IF n = 0 THEN <<>>
    ELSE Blocks(o, n - 1) \o StatementsOf(bankFiles[o[n]])

\* the number of statements in the first n files
RECURSIVE CountStatements(_)
CountStatements(n) ==
    IF n = 0 THEN 0
    ELSE CountStatements(n - 1) + Len(StatementsOf(bankFiles[n]))

\* C24: when every file is read successfully, readBankStatements returns no
\* error and the statements of every file exactly once, the statements of a
\* file next to one another in their file order and with the label of that
\* file, the files in some order; the length is the sum of the files'
\* numbers of statements.
C24_EveryStatementOnceInBlocks ==
    (BankReadDone /\ FailingFiles = {}) =>
        /\ readErr = "none"
        /\ \E o \in FileOrders : readRet = Blocks(o, Len(bankFiles))
        /\ Len(readRet) = CountStatements(Len(bankFiles))

\* two files of two statements each, returned with the second file first
C24_Witness ==
    /\ BankReadDone
    /\ Len(bankFiles) = 2
    /\ bankFiles[1].outcome = "two"
    /\ bankFiles[2].outcome = "two"
    /\ bankFiles[1].filename # bankFiles[2].filename
    /\ Len(readRet) = 4
    /\ readRet[1].BankName = BankNameOf(bankFiles[2].filename)

(***************************************************************************)
(* Termination of readBankStatements (specification SpecBankReadFair).     *)
(***************************************************************************)
\* the goroutines that have not sent their result yet
Unsent == {k \in 1..Len(bankFiles) : gpc[k] \in {"none", "open", "read"}}

\* every goroutine has ended
ReadersFinished == \A k \in 1..Len(bankFiles) : gpc[k] = "done"

\* a step that puts a result into the channel
SendStep == Len(resultCh') > Len(resultCh)

\* C25: in readBankStatements every reader goroutine sends exactly one
\* result and its send always finds room in the channel, also after the
\* collector has returned on the first error; the channel is closed once,
\* after all readers have ended, and never sent on once closed; the
\* collector returns and every goroutine ends, for every number of files
\* including none.
C25_AllTerminate ==
    /\ [](\A k \in 1..Len(bankFiles) :
            gpc[k] \in {"open", "read"} => Len(resultCh) < Len(bankFiles))
    /\ [][SendStep =>
            /\ ~chClosed
            /\ Len(resultCh') = Len(resultCh) + 1
            /\ \E k \in Unsent : Unsent' = Unsent \ {k}]_vars
    /\ [][Unsent' \subseteq Unsent \/ spawned' # spawned]_vars
    /\ [](chClosed => ReadersFinished)
    /\ [][chClosed # chClosed' => (~chClosed /\ closerPc = "wait")]_vars
    /\ [][closerPc = "done" => closerPc' = "done"]_vars
    /\ <>[](BankReadDone /\ chClosed /\ ReadersFinished /\ Unsent = {})

\* the call is over: the collector has returned on an error, the channel is
\* closed, both readers have ended and one result is left in the channel
C25_Witness ==
    /\ BankReadDone
    /\ readErr # "none"
    /\ chClosed
    /\ Len(bankFiles) = 2
    /\ ReadersFinished
    /\ Len(resultCh) = 1

(***************************************************************************)
(* Nothing left to pair (specification Spec).                              *)
(***************************************************************************)
\* C27: the pairing of Reconcile is maximal: in the returned result no
\* system transaction of unmatched_system and bank record of unmatched_bank
\* keep the sign, amount and date rules with each other.
C27_NoPairLeft ==
    Done =>
        \A a \in 1..Len(result.TransactionUnmatched.SystemUnmatched),
           c \in 1..Len(result.TransactionUnmatched.BankUnmatched) :
            ~RulesHold(result.TransactionUnmatched.SystemUnmatched[a],
                       result.TransactionUnmatched.BankUnmatched[c])

\* a pair was made, and a system transaction and a bank record of its day
\* are both left unmatched
C27_Witness ==
    /\ Done
    /\ Len(pairs) >= 1
    /\ \E a \in 1..Len(result.TransactionUnmatched.SystemUnmatched),
          c \in 1..Len(result.TransactionUnmatched.BankUnmatched) :
            SameDay(result.TransactionUnmatched.SystemUnmatched[a],
                    result.TransactionUnmatched.BankUnmatched[c])

(***************************************************************************)
(* The type field of a system row (specification SpecCsv).                 *)
(***************************************************************************)
\* C28: every system transaction that ReadSystemTransactionsFromCSV returns
\* has the direction DEBIT or CREDIT: a row whose type field is any other
\* value is rejected with an error.
C28_TypeIsDebitOrCredit ==
    (CsvDone /\ csvKind = "system" /\ csvErr = NoError) =>
        \A t \in 1..Len(transactions) :
            transactions[t].Type \in {TransactionTypeDebit,
                                      TransactionTypeCredit}

(***************************************************************************)
(* The arguments of Reconcile and an earlier run (specification SpecMerge). *)
(***************************************************************************)
\* C29: no step of Reconcile changes either argument (length, order and the
\* fields of every record stay as they were), and the result of a run is
\* the result its own arguments give, whatever an earlier run on other
\* arguments returned.
C29_InputsKeptRunsIndependent ==
    /\ [][pc # "done" => (system' = system /\ bank' = bank)]_vars
    /\ [](Done => result = RunAlone(system, bank))

\* a second run has returned with a pair, and its result is not that of the
\* first run
C29_Witness ==
    /\ Done
    /\ run = 2
    /\ Len(pairs) >= 1
    /\ result.TransactionMatched < firstResult.TransactionMatched

(***************************************************************************)
(* The text of a result (specification SpecString).                        *)
(***************************************************************************)
\* String() has returned for the last time
StringDone == spc = "returned" /\ Len(rendered) = Calls

\* C30: two calls of String() on the same result return the same text: the
\* groups of the unmatched bank statements come in the same order in every
\* call, also when there are two or more bank names.
C30_SameTextTwice ==
    StringDone => rendered[1] = rendered[2]

====
